---------------------------- MODULE Spec2Model ----------------------------
(***************************************************************************)
(* Model of the crypto-forecasting-ai backend: the upstream feed client    *)
(* (MarketDataSocket), the pair selectors (MarketDataSocket, TradingService*)
(* and BitgetService), the client hubs (WebSocketServer and the            *)
(* MarketDataSocket client registry) and the signal / trade pipeline       *)
(* (TradingService, BitgetService.placeOrder).                             *)
(*                                                                         *)
(* Strings that the code formats or parses are sequences of tokens:        *)
(* 'BTC_USDT' is <<"BTC","_","USDT">>, 'BTCUSDT' is <<"BTC","USDT">>.       *)
(* Node runs every handler to its first await without interleaving, so an  *)
(* action is one handler, or one segment of an async function between two  *)
(* awaits.                                                                 *)
(***************************************************************************)
EXTENDS Integers, Sequences, FiniteSets, TLC

VARIABLES
    \* ---- MarketDataSocket: upstream connection (part_002:14-26)
    wsState,            \* readyState of the socket this.ws refers to, or "null"
    oldSockets,         \* superseded sockets whose handlers are still attached
    isConnected,        \* this.isConnected
    pingInterval,       \* this.pingInterval is set
    pingTimers,         \* number of interval timers that are running
    reconnectAttempts,  \* this.reconnectAttempts
    reconnectTimers,    \* pending setTimeout(connect) timers, by their delay
    subscribedChannels, \* this.subscribedChannels
    emitted,            \* events this EventEmitter has emitted
    reconnectsSinceOpen,\* observer: reconnects scheduled since the last open
    lastReconnectDelay, \* observer: delay of the reconnect scheduled last
    initPhase,          \* progress of initializeBitgetConnection
    \* ---- MarketDataSocket: pair selection
    activeSymbols,      \* this.activeSymbols
    \* ---- WebSocketServer (wsServer.js:9-14)
    wsConn,             \* readyState of each downstream connection, or "none"
    wsClients,          \* the keys of this.clients
    subscriptions,      \* this.clients.get(id).subscriptions
    isAlive,            \* this.clients.get(id).isAlive
    wsPingTimers,       \* the connections whose ping interval is running
    wsSent,             \* the messages the last step sent to a client, and to whom
    upstreamCall,       \* the call of marketDataSocket.subscribe / unsubscribe the
                        \* last step made, if any
    everSubscribed,     \* observer: the symbols each connection has had subscribed
    pushed,             \* the market-data push the last step made, if any
    \* MarketDataSocket as the hub of the clients server.js hands to it
    clients,            \* this.clients
    clientState,        \* readyState of each client socket
    clientRequested,    \* observer: the symbols each client's subscribe messages named
    cachedMarketData,   \* this.cachedMarketData: instId -> channel -> { data, timestamp }
    lastArrived,        \* observer: the data array of the message that arrived last
    lastUpdated,        \* this.lastUpdated
    fallbackRequests,   \* calls of getFallbackMarketData that await getMarketData
                        \* for each (instId, channel) of a tracked instrument
    \* ---- pair selection
    selectedPairs,      \* observer: the large-cap and mid-cap lists behind activeSymbols
    rankInput,          \* observer: the selector that refreshed last, the tickers and
                        \* capitalizations it had, whether it assigned its lists, and
                        \* the symbols it held before
    filteredPairsCache, \* BitgetService: this.filteredPairsCache, or this.fallbackData
    cacheFresh,         \* BitgetService: now - lastCacheUpdate < cacheValidityPeriod
    tradingPairs,       \* TradingService: this.tradingPairs
    largecapPairs,      \* TradingService: this.largecapPairs
    midcapPairs,        \* TradingService: this.midcapPairs
    \* ---- TradingService: signals and trades
    isAutoTradingEnabled, \* this.isAutoTradingEnabled
    activeSignals,      \* this.activeSignals: key -> signal
    acceptedAt,         \* observer: when filterSignals last accepted each key
    acceptedAgain,      \* observer: the keys the last pass accepted again, and after how long
    now,                \* Date.now(), in seconds
    batches,            \* the runs of executeAutoTrades, by slot
    trades,             \* the calls of executeTrade in progress, by slot
    orderSent,          \* the request the last step sent to the trading API, if any
    \* ---- utils/indicators.js
    uniqueCall,         \* a call of isUniqueSignal: its arguments and its result
    clientMessage,      \* the message the last step's ws.on('message') handled
    riskCall,           \* a call of a risk computation: its arguments and its result
    subscribeCall,      \* a call of _subscribeToChannel: its arguments and the messages sent
    handledFrame        \* observer: the frame of the upstream socket handled last

feedVars == <<wsState, oldSockets, isConnected, pingInterval, pingTimers,
              reconnectAttempts, reconnectTimers, subscribedChannels, emitted,
              reconnectsSinceOpen, lastReconnectDelay, initPhase>>

hubVars == <<wsConn, wsClients, subscriptions, isAlive, wsPingTimers, upstreamCall,
             everSubscribed>>

cacheVars == <<cachedMarketData, lastArrived, lastUpdated, fallbackRequests>>

mdsVars == <<clients, clientState, clientRequested, cacheVars>>

bitgetVars == <<filteredPairsCache, cacheFresh>>

pairVars == <<tradingPairs, largecapPairs, midcapPairs>>

tradeVars == <<isAutoTradingEnabled, activeSignals, acceptedAt, now, batches, trades>>

\* the calls of the functions that keep no state
callVars == <<uniqueCall, clientMessage, riskCall, subscribeCall, handledFrame>>

vars == <<feedVars, activeSymbols, selectedPairs, hubVars, mdsVars, wsSent, pushed,
          bitgetVars, pairVars, tradeVars, orderSent, acceptedAgain, callVars, rankInput>>

\* what the steps of one component leave alone
refreshCore == <<hubVars, mdsVars, wsSent, pushed, pairVars, tradeVars, orderSent,
                 acceptedAgain, callVars>>
refreshFrame == <<refreshCore, rankInput>>
pairCore == <<feedVars, activeSymbols, selectedPairs, hubVars, mdsVars, wsSent, pushed,
              tradeVars, callVars>>
pairFrame == <<pairCore, rankInput>>
feedFrame == <<selectedPairs, hubVars, mdsVars, wsSent, pushed, bitgetVars, pairVars,
               tradeVars, orderSent, acceptedAgain, callVars, rankInput>>
hubFrame == <<feedVars, activeSymbols, selectedPairs, mdsVars, bitgetVars, pairVars,
              tradeVars, orderSent, acceptedAgain, callVars, rankInput>>
mdsFrame == <<feedVars, activeSymbols, selectedPairs, hubVars, bitgetVars, pairVars,
              tradeVars, orderSent, acceptedAgain, callVars, rankInput>>
tradeFrame == <<feedVars, activeSymbols, selectedPairs, hubVars, mdsVars, wsSent, pushed, callVars, rankInput>>
callFrame == <<feedVars, activeSymbols, selectedPairs, hubVars, mdsVars, wsSent, pushed,
               bitgetVars, pairVars, tradeVars, orderSent, acceptedAgain, rankInput,
               clientMessage, riskCall, subscribeCall, handledFrame>>
messageFrame == <<feedVars, activeSymbols, selectedPairs, mdsVars, bitgetVars, pairVars,
                  tradeVars, orderSent, acceptedAgain, rankInput, uniqueCall, riskCall,
                  subscribeCall, handledFrame>>
fallbackFrame == <<feedVars, activeSymbols, selectedPairs, hubVars, pairVars, tradeVars,
                   orderSent, acceptedAgain, callVars, rankInput>>
riskFrame == <<feedVars, activeSymbols, selectedPairs, hubVars, mdsVars, wsSent, pushed,
               bitgetVars, pairVars, tradeVars, orderSent, acceptedAgain, rankInput,
               uniqueCall, clientMessage, subscribeCall, handledFrame>>
batchFrame == <<feedVars, activeSymbols, selectedPairs, hubVars, mdsVars, wsSent, pushed,
                bitgetVars, pairVars, tradeVars, orderSent, acceptedAgain, rankInput,
                uniqueCall, clientMessage, riskCall, handledFrame>>
controlFrame == <<feedVars, activeSymbols, selectedPairs, hubVars, bitgetVars, pairVars,
                  tradeVars, orderSent, acceptedAgain, rankInput, uniqueCall,
                  clientMessage, riskCall, subscribeCall>>

-----------------------------------------------------------------------------
(* Bounds of the model *)

\* superseded sockets that are still alive at one time
MaxOldSockets == 1
\* reconnect timers pending at one time
MaxReconnectTimers == 2
\* the observer counter reconnectsSinceOpen saturates here
MaxStreak == 12
\* longest symbols array of a client message
MaxRequestLen == 2
\* runs of executeAutoTrades in progress at one time
MaxBatches == 2
\* manual calls of executeTrade in progress at one time
MaxManualTrades == 1
\* the clock stops here
MaxClock == 300
\* longest list of recent signals isUniqueSignal is called with
MaxRecentSignals == 2
\* calls of getFallbackMarketData in progress at one time
MaxFallbackRequests == 1
\* the longest list of symbols a call of _subscribeToChannel is given
MaxSymbols == 25

-----------------------------------------------------------------------------
(* Generic helpers *)

Min(a, b) == IF a <= b THEN a ELSE b

RECURSIVE Pow(_, _)
Pow(b, e) == IF e = 0 THEN 1 ELSE b * Pow(b, e - 1)

Range(s) == {s[i] : i \in 1..Len(s)}

\* s without its i-th element
RemoveAt(s, i) == SubSeq(s, 1, i - 1) \o SubSeq(s, i + 1, Len(s))

\* Array.prototype.slice(from, to) with 0-based from (inclusive), to (exclusive)
Slice(s, from, to) == SubSeq(s, Min(from, Len(s)) + 1, Min(to, Len(s)))

\* Array.prototype.filter
FilterSeq(s, keep) == SelectSeq(s, LAMBDA x : x \in keep)

\* Array.prototype.sort((a, b) => b[field] - a[field]); like the sort of
\* Node, SortSeq leaves elements of equal keys in their order
SortDescBy(s, field) == SortSeq(s, LAMBDA a, b : a[field] > b[field])

\* Array.prototype.sort((a, b) => a[field] - b[field])
SortAscBy(s, field) == SortSeq(s, LAMBDA a, b : a[field] < b[field])

\* Array.prototype.map(x => x[field])
Pluck(s, field) == [i \in 1..Len(s) |-> s[i][field]]

-----------------------------------------------------------------------------
(* Symbols as token sequences *)

\* String.prototype.endsWith
EndsWith(s, suffix) ==
    /\ Len(s) >= Len(suffix)
    /\ SubSeq(s, Len(s) - Len(suffix) + 1, Len(s)) = suffix

\* s.split('_')[0]
RECURSIVE SplitFirst(_)
SplitFirst(s) ==
    IF s = <<>> \/ Head(s) = "_" THEN <<>>
    ELSE <<Head(s)>> \o SplitFirst(Tail(s))

\* s.replace(pat, ''): the first occurrence of pat removed
RECURSIVE RemoveFirst(_, _)
RemoveFirst(s, pat) ==
    IF Len(s) < Len(pat) THEN s
    ELSE IF SubSeq(s, 1, Len(pat)) = pat THEN SubSeq(s, Len(pat) + 1, Len(s))
    ELSE <<Head(s)>> \o RemoveFirst(Tail(s), pat)

\* s.includes(pat)
Includes(s, pat) == RemoveFirst(s, pat) # s


-----------------------------------------------------------------------------
(* MarketDataSocket: constants of the constructor *)

maxReconnectAttempts == 10
reconnectDelay == 3000
largeCapCount == 10
midCapCount == 30

LargeCapNames ==
    <<"BTC", "ETH", "BNB", "SOL", "XRP", "DOGE", "ADA", "AVAX", "LINK", "DOT">>

MidCapNames ==
    <<"MATIC", "UNI", "ATOM", "LTC", "ICP", "SHIB", "BCH", "FIL", "NEAR", "APT",
      "INJ", "ARB", "OP", "VET", "AAVE", "MKR", "SNX", "GRT", "COMP", "SAND",
      "MANA", "EGLD", "RUNE", "FTM", "THETA", "ALGO", "EOS", "XTZ", "OCEAN", "ONE">>

\* a base symbol such as 'BTC' is the one-token string <<"BTC">>
fallbackLargeCapSymbols == [i \in 1..Len(LargeCapNames) |-> <<LargeCapNames[i]>>]
fallbackMidCapSymbols == [i \in 1..Len(MidCapNames) |-> <<MidCapNames[i]>>]

\* `${symbol}_USDT`
InstId(symbol) == symbol \o <<"_", "USDT">>

\* the channels _subscribeToAllChannels subscribes, in its order
FeedChannels == <<"ticker", "candle15m", "depth5">>

\* _useFallbackSymbols: new Set([...fallbackLargeCapSymbols, ...fallbackMidCapSymbols])
UseFallbackSymbols == Range(fallbackLargeCapSymbols) \cup Range(fallbackMidCapSymbols)

\* Delays are kept in units of 2^-(maxReconnectAttempts-1) ms, so that
\* 3000 * 1.5^(k-1) is an integer for every k up to maxReconnectAttempts.
DelayUnit == Pow(2, maxReconnectAttempts - 1)

\* reconnectDelay * Math.pow(1.5, attempts - 1), in DelayUnit-ths of a ms:
\* 3000 * 3^(k-1) / 2^(k-1) * 2^(max-1)
ReconnectDelayFor(attempts) ==
    reconnectDelay * Pow(3, attempts - 1) * Pow(2, maxReconnectAttempts - attempts)

-----------------------------------------------------------------------------
(* MarketDataSocket: connection lifecycle *)

\* sockets other than this.ws that can still deliver events
OldAlive == oldSockets.CONNECTING + oldSockets.OPEN

\* _reconnect does not return early, and so sets a timer
SchedulesTimer == reconnectAttempts < maxReconnectAttempts

\* room for the timer a call of _reconnect would set
TimerRoom == SchedulesTimer => Len(reconnectTimers) < MaxReconnectTimers

\* _reconnect(), after the events `events` have been emitted and with the
\* timers `timers` pending
Reconnect(events, timers) ==
    IF reconnectAttempts >= maxReconnectAttempts
    THEN /\ emitted' = events \cup {"reconnect_failed"}
         /\ reconnectTimers' = timers
         /\ UNCHANGED <<reconnectAttempts, reconnectsSinceOpen, lastReconnectDelay>>
    ELSE /\ reconnectAttempts' = reconnectAttempts + 1
         /\ reconnectTimers' = Append(timers, ReconnectDelayFor(reconnectAttempts + 1))
         /\ lastReconnectDelay' = ReconnectDelayFor(reconnectAttempts + 1)
         /\ reconnectsSinceOpen' = Min(reconnectsSinceOpen + 1, MaxStreak)
         /\ emitted' = events

\* the assignment that ends connect()'s try block
ConnectResetAttempts == 0

\* connect(); `threw`: new WebSocket(...) throws. timers: the timers that are
\* pending when connect is called
Connect(threw, timers) ==
    /\ activeSymbols' = IF activeSymbols = {} THEN UseFallbackSymbols ELSE activeSymbols
    /\ IF threw
       THEN /\ Reconnect(emitted, timers)
            /\ UNCHANGED <<wsState, oldSockets>>
       ELSE /\ wsState' = "CONNECTING"
            /\ oldSockets' =
                   IF wsState \in {"CONNECTING", "OPEN"}
                   THEN [oldSockets EXCEPT ![wsState] = @ + 1]
                   ELSE oldSockets
            /\ reconnectAttempts' = ConnectResetAttempts
            /\ reconnectTimers' = timers
            /\ UNCHANGED <<emitted, reconnectsSinceOpen, lastReconnectDelay>>
    /\ UNCHANGED <<isConnected, pingInterval, pingTimers, subscribedChannels>>

\* connect() leaves at most MaxOldSockets superseded sockets alive
ConnectRoom(threw) ==
    \/ threw
    \/ wsState \notin {"CONNECTING", "OPEN"}
    \/ OldAlive < MaxOldSockets

\* _subscribeToChannel for every channel of FeedChannels, given the readyState
\* of this.ws and the symbols: the new value of this.subscribedChannels
SubscribeToAllChannels(readyState, symbols) ==
    IF readyState = "OPEN"
    THEN {<<FeedChannels[c], InstId(sym)>> : c \in 1..Len(FeedChannels), sym \in symbols}
    ELSE {}

\* const batchSize = 10
batchSize == 10

\* a slice that takes one symbol more than the batch size
BatchWithOneMore(symbols, i) == Slice(symbols, i, i + batchSize + 1)

\* symbols.slice(i, i + batchSize)
Batch(symbols, i) == Slice(symbols, i, i + batchSize)

\* batch.map(symbol => ({ channel, instId: `${symbol}_USDT` }))
SubscribeArgs(channel, batch) ==
    [k \in 1..Len(batch) |-> [channel |-> channel, instId |-> InstId(batch[k])]]

\* _subscribeToChannel(channel, symbols), `readyState` being that of this.ws:
\* the messages given to ws.send, one for every i = 0, batchSize, 2 batchSize, ...
\* below symbols.length
SubscribeToChannel(channel, symbols, readyState) ==
    IF symbols = <<>> \/ readyState # "OPEN" THEN <<>>
    ELSE LET starts == {i \in 0..(Len(symbols) - 1) : i % batchSize = 0}
         IN  [m \in 1..Cardinality(starts) |->
                [op |-> "subscribe",
                 args |-> SubscribeArgs(channel, Batch(symbols, (m - 1) * batchSize))]]

NoSubscribeCall ==
    [phase |-> "none", channel |-> "", symbols |-> <<>>, readyState |-> "", messages |-> <<>>]

\* the lists of symbols of a call: the first n of the 40 fallback symbols
SymbolLists ==
    {SubSeq(fallbackLargeCapSymbols \o fallbackMidCapSymbols, 1, n) : n \in 0..MaxSymbols}

SubscribeCalls ==
    {[phase |-> "called", channel |-> FeedChannels[c], symbols |-> symbols,
      readyState |-> readyState, messages |-> <<>>] :
        c \in 1..Len(FeedChannels), symbols \in SymbolLists,
        readyState \in {"OPEN", "CLOSED"}}

\* the call returns
SubscribeToChannelReturns ==
    /\ subscribeCall.phase = "called"
    /\ subscribeCall' =
          [subscribeCall EXCEPT
              !.phase = "returned",
              !.messages = SubscribeToChannel(subscribeCall.channel, subscribeCall.symbols,
                                              subscribeCall.readyState)]

\* a handler that leaves the running interval alone
KeepPingInterval == pingTimers

\* if (this.pingInterval) clearInterval(this.pingInterval): the timers that
\* are left running
ClearPingInterval == IF pingInterval THEN pingTimers - 1 ELSE pingTimers

\* _handleOpen(), `readyState` being that of this.ws
HandleOpen(readyState) ==
    /\ isConnected' = TRUE
    /\ emitted' = emitted \cup {"connected"}
    /\ pingInterval' = TRUE
    /\ pingTimers' = ClearPingInterval + 1
    /\ activeSymbols' = IF activeSymbols = {} THEN UseFallbackSymbols ELSE activeSymbols
    /\ subscribedChannels' = SubscribeToAllChannels(readyState, activeSymbols')
    /\ reconnectsSinceOpen' = 0
    /\ UNCHANGED <<reconnectAttempts, reconnectTimers, lastReconnectDelay, initPhase>>

\* _handleClose()
HandleClose ==
    /\ isConnected' = FALSE
    /\ pingInterval' = FALSE
    /\ pingTimers' = ClearPingInterval
    /\ Reconnect(emitted \cup {"disconnected"}, reconnectTimers)
    /\ UNCHANGED <<subscribedChannels, activeSymbols, initPhase>>

\* initializeBitgetConnection: the .then callback, once the first
\* updateTradingPairs has settled
InitConnect(threw) ==
    /\ initPhase = "refreshed"
    /\ initPhase' = "running"
    /\ Connect(threw, reconnectTimers)

\* the 'open' event of this.ws
SocketOpen ==
    /\ wsState = "CONNECTING"
    /\ wsState' = "OPEN"
    /\ HandleOpen("OPEN")
    /\ UNCHANGED oldSockets

\* the 'open' event of a superseded socket
OldSocketOpen ==
    /\ oldSockets.CONNECTING > 0
    /\ oldSockets' = [oldSockets EXCEPT !.CONNECTING = @ - 1, !.OPEN = @ + 1]
    /\ HandleOpen(wsState)
    /\ UNCHANGED wsState

\* the 'close' event of this.ws
SocketClose ==
    /\ wsState \in {"CONNECTING", "OPEN"}
    /\ TimerRoom
    /\ wsState' = "CLOSED"
    /\ HandleClose
    /\ UNCHANGED oldSockets

\* the 'close' event of a superseded socket
OldSocketClose ==
    /\ TimerRoom
    /\ \E st \in {"CONNECTING", "OPEN"} :
          /\ oldSockets[st] > 0
          /\ oldSockets' = [oldSockets EXCEPT ![st] = @ - 1]
    /\ HandleClose
    /\ UNCHANGED wsState

\* the ping interval fires; `threw`: ws.send throws
PingTick(threw) ==
    /\ pingTimers > 0
    /\ IF isConnected /\ wsState = "OPEN" /\ threw
       THEN /\ TimerRoom
            /\ HandleClose
            /\ UNCHANGED <<wsState, oldSockets>>
       ELSE UNCHANGED <<feedVars, activeSymbols>>

\* a reconnect timer fires: connect()
ReconnectTimerFires(threw) ==
    \E i \in 1..Len(reconnectTimers) :
        /\ ConnectRoom(threw)
        /\ Connect(threw, RemoveAt(reconnectTimers, i))
        /\ UNCHANGED initPhase

\* the 'error' event of a socket: _handleError emits 'error'
SocketError ==
    /\ wsState \in {"CONNECTING", "OPEN"} \/ OldAlive > 0
    /\ emitted' = emitted \cup {"error"}
    /\ UNCHANGED <<wsState, oldSockets, isConnected, pingInterval, pingTimers,
                   reconnectAttempts, reconnectTimers, subscribedChannels,
                   reconnectsSinceOpen, lastReconnectDelay, initPhase, activeSymbols>>

-----------------------------------------------------------------------------
(* Responses of the exchange and of the ranking source *)

\* instruments beyond the 40 fallback names
ExtraNames ==
    <<"TRX", "TON", "XLM", "HBAR", "SUI", "PEPE", "KAS", "IMX", "STX", "SEI",
      "TIA", "JUP">>

AssetNames == LargeCapNames \o MidCapNames \o ExtraNames

\* the same names as the ranking source spells them
AssetLower ==
    <<"btc", "eth", "bnb", "sol", "xrp", "doge", "ada", "avax", "link", "dot",
      "matic", "uni", "atom", "ltc", "icp", "shib", "bch", "fil", "near", "apt",
      "inj", "arb", "op", "vet", "aave", "mkr", "snx", "grt", "comp", "sand",
      "mana", "egld", "rune", "ftm", "theta", "algo", "eos", "xtz", "ocean", "one",
      "trx", "ton", "xlm", "hbar", "sui", "pepe", "kas", "imx", "stx", "sei",
      "tia", "jup">>

\* the upper-case form of each lower-case name
UpperOf ==
    [name \in Range(AssetLower) |->
        AssetNames[CHOOSE k \in 1..Len(AssetLower) : AssetLower[k] = name]]

\* String.prototype.toUpperCase
ToUpperCase(s) ==
    [i \in 1..Len(s) |-> IF s[i] \in DOMAIN UpperOf THEN UpperOf[s[i]] ELSE s[i]]

\* one ticker of GET /api/mix/v1/market/tickers; a volume below 0 stands for
\* a field the response does not carry
Ticker(k, style, volume) ==
    [symbol |-> IF style = "UMCBL" THEN <<AssetNames[k], "USDT", "_", "UMCBL">>
                ELSE <<AssetNames[k], "_", "USDT">>,
     usdtVolume |-> volume, volume24h |-> volume, last |-> 1, marketCap |-> 0]

\* the first n instruments; "desc": the first has the largest volume; "asc":
\* the last has, the first carries no volume and the second the volume "0"
Snapshot(n, style, order) ==
    [k \in 1..n |-> Ticker(k, style, IF order = "desc" THEN n + 1 - k ELSE k - 2)]

\* no tickers (or a failed request); all instruments under either naming;
\* a few '_UMCBL' tickers; fewer '_USDT' tickers than the large-cap count
Snapshots ==
    {<<>>,
     Snapshot(Len(AssetNames), "UMCBL", "asc"),
     Snapshot(Len(AssetNames), "SPOT", "desc"),
     Snapshot(Len(LargeCapNames) + 2, "UMCBL", "desc"),
     Snapshot(Len(LargeCapNames) - 1, "SPOT", "asc")}

\* GET /coins/markets: the 40 fallback names by rank; <<>>: the request
\* fails, or answers with an empty list
Coins ==
    [k \in 1..(Len(LargeCapNames) + Len(MidCapNames)) |->
        [symbol |-> <<AssetLower[k]>>, market_cap_rank |-> k,
         market_cap |-> (Len(AssetNames) + 1 - k) * 1000]]

CoinGeckoResponses == {<<>>, Coins}

\* n tickers whose prices differ, the k-th with the capitalization 1000 * k
\* unless k is in capless
CapSnapshot(n, style, capless) ==
    [k \in 1..n |->
        [Ticker(k, style, n + 1 - k) EXCEPT
            !.last = IF k % 2 = 0 THEN 3 ELSE 1,
            !.marketCap = IF k \in capless THEN 0 ELSE 1000 * k]]

\* parseFloat(v || 0) of a volume field
ParseVolume(v) == IF v < 0 THEN 0 ELSE v

-----------------------------------------------------------------------------
(* BitgetService: getFilteredTradingPairs and getMarketData *)

\* rank of a pair the ranking source does not list
unknownRank == 9999
\* the ranks up to which a pair is large-cap, and mid-cap
largeCapRankLimit == 20
midCapRankLimit == 100

\* this.fallbackData of the constructor, returned while there is no cache
EmptyPairs ==
    [cached |-> FALSE, largeCapPairs |-> <<>>, midCapPairs |-> <<>>,
     filteredSymbols |-> <<>>]

\* getMarketData: the tickers with a symbol and a volume field
ValidData(snapshot) ==
    FilterSeq(snapshot, {t \in Range(snapshot) : t.usdtVolume >= 0})

\* availablePairs of getFilteredTradingPairs
AvailablePairs(validData) ==
    LET pairs == [i \in 1..Len(validData) |->
                    [symbol |-> SplitFirst(validData[i].symbol),
                     volume |-> ParseVolume(validData[i].usdtVolume)]]
    IN  FilterSeq(pairs, {q \in Range(pairs) : q.volume > 0 /\ q.symbol # <<>>})

Category(rank) ==
    IF rank <= largeCapRankLimit THEN "large-cap"
    ELSE IF rank <= midCapRankLimit THEN "mid-cap" ELSE "small-cap"

\* estimateMarketCapFromVolume
EstimateMarketCapFromVolume(pairs) ==
    LET sortedPairs == SortDescBy(pairs, "volume")
    IN  [i \in 1..Len(sortedPairs) |->
            [symbol |-> sortedPairs[i].symbol, marketCapRank |-> i,
             category |-> Category(i)]]

\* marketCapRankMap[...]: the last coin of the list with that symbol wins
MarketCapRank(symbol, marketCapData) ==
    LET key == ToUpperCase(symbol)
        hits == {k \in 1..Len(marketCapData) :
                    ToUpperCase(marketCapData[k].symbol) = key}
    IN  IF hits = {} THEN unknownRank
        ELSE marketCapData[CHOOSE k \in hits : \A h \in hits : h <= k].market_cap_rank

\* categorizedPairs when the ranking source answers
CategorizeByMarketCap(pairs, marketCapData) ==
    [i \in 1..Len(pairs) |->
        LET rank == MarketCapRank(pairs[i].symbol, marketCapData)
        IN  [symbol |-> pairs[i].symbol, marketCapRank |-> rank,
             category |-> Category(rank)]]

\* the mid-cap list of getFilteredTradingPairs
SelectMidCapPairs(categorizedPairs) ==
    Slice(SortAscBy(FilterSeq(categorizedPairs,
                              {q \in Range(categorizedPairs) : q.category = "mid-cap"}),
                    "marketCapRank"),
          0, midCapCount)

\* steps 4 of getFilteredTradingPairs: the lists it caches
SelectFilteredPairs(categorizedPairs) ==
    LET largeCapPairs ==
            Slice(SortAscBy(FilterSeq(categorizedPairs,
                                      {q \in Range(categorizedPairs) :
                                          q.category = "large-cap"}),
                            "marketCapRank"),
                  0, largeCapCount)
        midCapPairs == SelectMidCapPairs(categorizedPairs)
    IN  [cached |-> TRUE,
         largeCapPairs |-> Pluck(largeCapPairs, "symbol"),
         midCapPairs |-> Pluck(midCapPairs, "symbol"),
         filteredSymbols |->
             Pluck(SortAscBy(largeCapPairs \o midCapPairs, "marketCapRank"), "symbol")]

\* getFilteredTradingPairs recomputes its lists
CacheRecomputed(snapshot) ==
    /\ ~(filteredPairsCache.cached /\ cacheFresh)
    /\ AvailablePairs(ValidData(snapshot)) # <<>>

\* getFilteredTradingPairs: what it returns, which is also what it leaves in
\* this.filteredPairsCache
GetFilteredTradingPairs(snapshot, marketCapData) ==
    IF ~CacheRecomputed(snapshot) THEN filteredPairsCache
    ELSE LET availablePairs == AvailablePairs(ValidData(snapshot))
         IN  SelectFilteredPairs(
                 IF marketCapData # <<>>
                 THEN CategorizeByMarketCap(availablePairs, marketCapData)
                 ELSE EstimateMarketCapFromVolume(availablePairs))

\* getMarketData(true) reaches getFilteredTradingPairs
MarketDataFilters(snapshot) == ValidData(snapshot) # <<>>

\* getMarketData(true): the list it returns, `cache` being what
\* getFilteredTradingPairs returned
GetMarketData(snapshot, cache) ==
    LET validData == ValidData(snapshot)
    IN  IF validData = <<>> THEN <<>>
        ELSE IF cache.filteredSymbols = <<>> THEN validData
        ELSE FilterSeq(validData,
                       {t \in Range(validData) :
                           SplitFirst(t.symbol) \in Range(cache.filteredSymbols)})

\* this.filteredPairsCache after one getMarketData(true)
CacheAfterMarketData(snapshot, marketCapData) ==
    IF MarketDataFilters(snapshot)
    THEN GetFilteredTradingPairs(snapshot, marketCapData)
    ELSE filteredPairsCache

\* the effect of one getMarketData(true) on the service
BitgetGetMarketData(snapshot, marketCapData) ==
    /\ filteredPairsCache' = CacheAfterMarketData(snapshot, marketCapData)
    /\ cacheFresh' = (cacheFresh \/ (MarketDataFilters(snapshot) /\ CacheRecomputed(snapshot)))

NoOrder == [kind |-> "none", symbol |-> <<>>, side |-> "", size |-> 0]

\* cacheValidityPeriod passes
CacheExpires ==
    /\ cacheFresh
    /\ cacheFresh' = FALSE
    /\ orderSent' = NoOrder
    /\ acceptedAgain' = <<>>
    /\ UNCHANGED filteredPairsCache

-----------------------------------------------------------------------------
(* MarketDataSocket.updateTradingPairs *)

\* usdtPairs: the '_USDT' tickers with a volume
MdsUsdtPairs(marketData) ==
    LET named == FilterSeq(marketData,
                           {t \in Range(marketData) :
                               /\ SplitFirst(t.symbol) # <<>>
                               /\ EndsWith(t.symbol, <<"_", "USDT">>)})
        pairs == [i \in 1..Len(named) |->
                    [symbol |-> SplitFirst(named[i].symbol),
                     volume |-> IF named[i].usdtVolume >= 0
                                THEN named[i].usdtVolume
                                ELSE ParseVolume(named[i].volume24h),
                     marketCap |-> named[i].marketCap]]
    IN  FilterSeq(pairs, {q \in Range(pairs) : q.volume > 0})

\* usdtPairs after the sort
MdsSorted(usdtPairs) ==
    IF \E i \in 1..Len(usdtPairs) : usdtPairs[i].marketCap = 0
    THEN SortDescBy(usdtPairs, "volume")
    ELSE SortDescBy(usdtPairs, "marketCap")

\* largeCapPairs and midCapPairs of updateTradingPairs
MdsSelect(usdtPairs) ==
    LET sorted == MdsSorted(usdtPairs)
        nLarge == Min(largeCapCount, Len(sorted))
        remainingPairs == Slice(sorted, nLarge, Len(sorted))
        nMid == Min(midCapCount, Len(remainingPairs))
    IN  [largeCapPairs |-> Pluck(Slice(sorted, 0, nLarge), "symbol"),
         midCapPairs |-> Pluck(Slice(remainingPairs, 0, nMid), "symbol")]

FallbackPairs ==
    [largeCapPairs |-> fallbackLargeCapSymbols, midCapPairs |-> fallbackMidCapSymbols]

\* updateTradingPairs, at startup and every 30 minutes
MdsUpdateTradingPairs(snapshot, marketCapData) ==
    /\ initPhase \in {"constructed", "running"}
    /\ initPhase' = IF initPhase = "constructed" THEN "refreshed" ELSE initPhase
    /\ BitgetGetMarketData(snapshot, marketCapData)
    /\ LET marketData ==
               GetMarketData(snapshot, CacheAfterMarketData(snapshot, marketCapData))
           usdtPairs == MdsUsdtPairs(marketData)
           selected == MdsSelect(usdtPairs)
       IN  IF usdtPairs # <<>>
           THEN /\ selectedPairs' = selected
                /\ activeSymbols' = Range(selected.largeCapPairs)
                                        \cup Range(selected.midCapPairs)
                /\ subscribedChannels' =
                       IF isConnected
                       THEN SubscribeToAllChannels(wsState, activeSymbols')
                       ELSE subscribedChannels
           ELSE /\ IF activeSymbols # {}
                   THEN UNCHANGED <<activeSymbols, selectedPairs>>
                   ELSE /\ activeSymbols' = UseFallbackSymbols
                        /\ selectedPairs' = FallbackPairs
                /\ UNCHANGED subscribedChannels
    /\ UNCHANGED <<wsState, oldSockets, isConnected, pingInterval, pingTimers,
                   reconnectAttempts, reconnectTimers, emitted, reconnectsSinceOpen,
                   lastReconnectDelay>>

\* updateTradingPairs of websockets/marketDataSocket.js, which has no fallback
\* symbols: its catch logs the error and throws it again. At startup the
\* promise of initializeBitgetConnection is then rejected and its .catch logs;
\* a rejection of the 30-minute call goes to the 'unhandledRejection' listener
\* of server.js, which logs it.
RethrowingUpdateTradingPairs(snapshot, marketCapData) ==
    /\ initPhase \in {"constructed", "running"}
    /\ BitgetGetMarketData(snapshot, marketCapData)
    /\ LET marketData ==
               GetMarketData(snapshot, CacheAfterMarketData(snapshot, marketCapData))
           named == FilterSeq(marketData,
                              {t \in Range(marketData) :
                                  /\ SplitFirst(t.symbol) # <<>>
                                  /\ EndsWith(t.symbol, <<"_", "USDT">>)})
           \* parseFloat(pair.usdtVolume) of a missing field is NaN, and NaN > 0 fails
           pairs == [i \in 1..Len(named) |->
                       [symbol |-> SplitFirst(named[i].symbol),
                        volume |-> IF named[i].usdtVolume >= 0
                                   THEN named[i].usdtVolume ELSE 0,
                        marketCap |-> named[i].marketCap]]
           usdtPairs == FilterSeq(pairs, {q \in Range(pairs) : q.volume > 0})
           sorted == SortDescBy(usdtPairs, "marketCap")
           selected ==
               [largeCapPairs |-> Pluck(Slice(sorted, 0, largeCapCount), "symbol"),
                midCapPairs |-> Pluck(Slice(sorted, largeCapCount,
                                            largeCapCount + midCapCount), "symbol")]
       IN  IF marketData # <<>>
           THEN /\ initPhase' = IF initPhase = "constructed" THEN "refreshed" ELSE initPhase
                /\ selectedPairs' = selected
                /\ activeSymbols' = Range(selected.largeCapPairs)
                                        \cup Range(selected.midCapPairs)
                /\ subscribedChannels' =
                       IF isConnected /\ activeSymbols' # {}
                       THEN SubscribeToAllChannels(wsState, activeSymbols')
                       ELSE subscribedChannels
           ELSE /\ initPhase' = IF initPhase = "constructed" THEN "failed" ELSE initPhase
                /\ UNCHANGED <<activeSymbols, selectedPairs, subscribedChannels>>
    /\ UNCHANGED <<wsState, oldSockets, isConnected, pingInterval, pingTimers,
                   reconnectAttempts, reconnectTimers, emitted, reconnectsSinceOpen,
                   lastReconnectDelay>>

-----------------------------------------------------------------------------
(* TradingService.updateTradingPairs *)

maxLargecapPairs == 10
maxMidcapPairs == 30

\* usdtPairs: the '_UMCBL' tickers that name USDT
TsUsdtPairs(marketData) ==
    LET named == FilterSeq(marketData,
                           {t \in Range(marketData) :
                               /\ EndsWith(t.symbol, <<"_", "UMCBL">>)
                               /\ Includes(t.symbol, <<"USDT">>)})
    IN  [i \in 1..Len(named) |->
            [symbol |-> RemoveFirst(named[i].symbol, <<"_", "UMCBL">>),
             volume24h |-> ParseVolume(named[i].volume24h),
             price |-> named[i].last,
             marketCap |-> 0]]

\* enrichWithMarketCapData: the market cap of the first coin of that name,
\* or volume24h * price
EnrichWithMarketCapData(pairs, marketCapData) ==
    [i \in 1..Len(pairs) |->
        LET baseCurrency == ToUpperCase(RemoveFirst(pairs[i].symbol, <<"USDT">>))
            hits == {k \in 1..Len(marketCapData) :
                        ToUpperCase(marketCapData[k].symbol) = baseCurrency}
            coin == marketCapData[CHOOSE k \in hits : \A h \in hits : k <= h]
        IN  [pairs[i] EXCEPT !.marketCap =
                IF hits # {} /\ coin.market_cap # 0
                THEN coin.market_cap
                ELSE pairs[i].volume24h * pairs[i].price]]

\* a midcapPairs whose slice starts one place early, inside the large-cap ones
TsSelectMidcapOverlapping(sortedByMarketCap) ==
    Pluck(Slice(sortedByMarketCap, maxLargecapPairs - 1, maxLargecapPairs + maxMidcapPairs),
          "symbol")

\* this.midcapPairs: the next maxMidcapPairs after the large-cap ones
TsSelectMidcap(sortedByMarketCap) ==
    Pluck(Slice(sortedByMarketCap, maxLargecapPairs, maxLargecapPairs + maxMidcapPairs),
          "symbol")

\* updateTradingPairs, at startup and every hour
TsUpdateTradingPairs(snapshot, bitgetCapData, marketCapData) ==
    /\ BitgetGetMarketData(snapshot, bitgetCapData)
    /\ LET marketData ==
               GetMarketData(snapshot, CacheAfterMarketData(snapshot, bitgetCapData))
           usdtPairs == EnrichWithMarketCapData(TsUsdtPairs(marketData), marketCapData)
           sortedByMarketCap == SortDescBy(usdtPairs, "marketCap")
       IN  /\ largecapPairs' = Pluck(Slice(sortedByMarketCap, 0, maxLargecapPairs), "symbol")
           /\ midcapPairs' = TsSelectMidcap(sortedByMarketCap)
           /\ tradingPairs' = largecapPairs' \o midcapPairs'
    /\ orderSent' = NoOrder
    /\ acceptedAgain' = <<>>

-----------------------------------------------------------------------------
(* TradingService: signals *)

\* MIN_SIGNAL_CONFIDENCE, default '0.7', in hundredths
minSignalConfidence == 70
\* a signal expires 20000 ms after it was accepted; the clock counts seconds
signalTtl == 20
\* at most this many trades per run of executeAutoTrades
maxConcurrentTrades == 5
\* the share of the available balance one run spends, in thousandths
balanceShare == 900

Timeframes == {"1m", "15m"}

\* isUniqueSignal's timeWindows: minutes between two signals of one timeframe
timeWindows(timeframe) ==
    CASE timeframe = "1m" -> 5
      [] timeframe = "5m" -> 15
      [] timeframe = "15m" -> 60
      [] timeframe = "1h" -> 240
      [] timeframe = "4h" -> 720
      [] timeframe = "1d" -> 1440 * 2
      [] OTHER -> 60

\* 'BTCUSDT'
Sym(name) == IF name = "" THEN <<>> ELSE <<name, "USDT">>

Prediction(name, side, confidence) ==
    [symbol |-> Sym(name), side |-> side, confidence |-> confidence]

\* responses of the ML service: seven signals that qualify when all pairs trade,
\* among a repeated key, a pair that is never selected, a low confidence and a
\* missing symbol and side; two signals; none
ManyPredictions ==
    << Prediction("INJ", "buy", 95), Prediction("BTC", "buy", 80),
       Prediction("ARB", "sell", 90), Prediction("ETH", "sell", 85),
       Prediction("BTC", "buy", 99), Prediction("SOL", "buy", 75),
       Prediction("OP", "buy", 99), Prediction("TRX", "buy", 99),
       Prediction("DOGE", "sell", 60), Prediction("XRP", "buy", 70),
       Prediction("", "buy", 90), Prediction("ADA", "", 90) >>

FewPredictions == << Prediction("INJ", "buy", 95), Prediction("BTC", "buy", 80) >>

PredictionBatches == {ManyPredictions, FewPredictions, <<>>}

SignalKey(signal, timeframe) == <<signal.symbol, signal.side, timeframe>>

SignalKeys ==
    {SignalKey(p, tf) : p \in UNION {Range(b) : b \in PredictionBatches}, tf \in Timeframes}



\* a pass that never finds a key in sigKeys
KeyNeverSeen(signals, eligible, i) == TRUE

\* !sigKeys.has(key): no eligible signal before the i-th has its symbol and side
KeyNotSeen(signals, eligible, i) ==
    \A j \in eligible :
        j < i => \/ signals[j].symbol # signals[i].symbol
                 \/ signals[j].side # signals[i].side

\* filterSignals: confident enough, with a symbol and a side, of a selected
\* pair, and the first of its symbol and side in this pass
FilterSignals(signals, timeframe) ==
    LET pairs == Range(tradingPairs)
        eligible == {i \in 1..Len(signals) :
                        /\ signals[i].confidence >= minSignalConfidence
                        /\ signals[i].symbol # <<>>
                        /\ signals[i].side # ""
                        /\ signals[i].symbol \in pairs}
        kept == SelectSeq([i \in 1..Len(signals) |-> i],
                          LAMBDA i : i \in eligible /\ KeyNotSeen(signals, eligible, i))
    IN  [k \in 1..Len(kept) |->
            [symbol |-> signals[kept[k]].symbol,
             side |-> signals[kept[k]].side,
             confidence |-> signals[kept[k]].confidence,
             timeframe |-> timeframe,
             timestamp |-> now,
             expiresAt |-> now + signalTtl,
             pairType |-> IF signals[kept[k]].symbol \in Range(largecapPairs)
                          THEN "large-cap" ELSE "mid-cap"]]

\* an update that inserts the new signals and evicts nothing
UpdateActiveSignalsKeepingExpired(signals, timeframe) ==
    LET new == {SignalKey(signals[i], timeframe) : i \in 1..Len(signals)}
    IN  [k \in DOMAIN activeSignals \cup new |->
            IF k \in new
            THEN LET hits == {i \in 1..Len(signals) :
                                 SignalKey(signals[i], timeframe) = k}
                 IN  signals[CHOOSE i \in hits : \A h \in hits : h <= i]
            ELSE activeSignals[k]]

\* updateActiveSignals: expired entries leave, the new signals enter by key
UpdateActiveSignals(signals, timeframe) ==
    LET live == {k \in DOMAIN activeSignals : ~(activeSignals[k].expiresAt < now)}
        new == {SignalKey(signals[i], timeframe) : i \in 1..Len(signals)}
    IN  [k \in live \cup new |->
            IF k \in new
            THEN LET hits == {i \in 1..Len(signals) :
                                 SignalKey(signals[i], timeframe) = k}
                 IN  signals[CHOOSE i \in hits : \A h \in hits : h <= i]
            ELSE activeSignals[k]]

-----------------------------------------------------------------------------
(* TradingService: executeAutoTrades and executeTrade; BitgetService.placeOrder *)

\* the balances the account reports
Balances == {0, 1000}

BatchIds == 1..MaxBatches
AutoTradeIds == {<<"auto", b>> : b \in BatchIds}
ManualTradeIds == {<<"manual", m>> : m \in 1..MaxManualTrades}
TradeIds == AutoTradeIds \cup ManualTradeIds

\* an entry of the array getAccountBalance answers with
Account(marginCoin, available) == [marginCoin |-> marginCoin, available |-> available]

\* accountInfo.find(acc => acc && acc.marginCoin === 'USDT')
UsdtAccounts(accountInfo) == SelectSeq(accountInfo, LAMBDA acc : acc.marginCoin = "USDT")

\* usdtAccount ? parseFloat(usdtAccount.available || 0) : 0
AvailableBalance(accountInfo) ==
    IF UsdtAccounts(accountInfo) = <<>> THEN 0 ELSE UsdtAccounts(accountInfo)[1].available

\* a test that lets a negative balance pass
InsufficientBalanceZeroOnly(availableBalance) == availableBalance = 0

\* availableBalance <= 0
InsufficientBalance(availableBalance) == availableBalance <= 0

IdleBatch ==
    [phase |-> "idle", signals |-> <<>>, answered |-> FALSE, accountInfo |-> <<>>,
     balance |-> 0, prioritized |-> <<>>,
     maxSignals |-> 0, tradeSize |-> 0, i |-> 0, attempted |-> <<>>, threw |-> 0,
     result |-> "none"]

\* STOP_LOSS_PERCENTAGE and TAKE_PROFIT_PERCENTAGE, in hundredths
stopLossPercentage == 2
takeProfitPercentage == 5

IdleTrade ==
    [phase |-> "idle", symbol |-> <<>>, side |-> "", quantity |-> 0,
     stopLoss |-> 0, takeProfit |-> 0]

\* a comparator that ignores pairType
PrioritizedByConfidenceOnly(a, b) == a.confidence > b.confidence

\* the comparator of the sort: large-cap first, then the higher confidence
PrioritizedBefore(a, b) ==
    \/ a.pairType = "large-cap" /\ b.pairType # "large-cap"
    \/ /\ (a.pairType = "large-cap") = (b.pairType = "large-cap")
       /\ a.confidence > b.confidence

\* availableBalance * 0.9 / maxSignals, in thousandths
TradeSize(availableBalance, maxSignals) == (availableBalance * balanceShare) \div maxSignals

\* a loop that a failed trade ends
AbortAfterThrow(i, maxSignals) == maxSignals + 1

\* the catch inside the loop logs the failure and the loop goes on
NextAfterThrow(i, maxSignals) == i + 1

\* the loop of executeAutoTrades from index i up to its next await: a signal whose
\* symbol has left tradingPairs throws inside executeTrade at once
RECURSIVE RunLoop(_, _, _)
RunLoop(r, i, pairs) ==
    IF i > r.maxSignals
    THEN [r EXCEPT !.phase = "done", !.result = "returned", !.i = i]
    ELSE LET signal == r.prioritized[i]
             attempt == [symbol |-> signal.symbol, side |-> signal.side,
                         size |-> r.tradeSize, outcome |-> "pending",
                         stopOrders |-> "none", status |-> "none",
                         stopLoss |-> 0, takeProfit |-> 0]
             r1 == [r EXCEPT !.attempted = Append(@, attempt), !.i = i]
         IN  IF signal.symbol \in Range(pairs)
             THEN [r1 EXCEPT !.phase = "trading"]
             ELSE RunLoop([r1 EXCEPT !.threw = @ + 1,
                                     !.attempted[Len(r1.attempted)].outcome = "threw"],
                          NextAfterThrow(i, r.maxSignals), pairs)

\* the call of executeTrade a run is waiting for
TradeOf(r) ==
    IF r.phase = "trading"
    THEN [phase |-> "price", symbol |-> r.prioritized[r.i].symbol,
          side |-> r.prioritized[r.i].side, quantity |-> r.tradeSize,
          stopLoss |-> 0, takeProfit |-> 0]
    ELSE IdleTrade

\* toggleAutoTrading
ToggleAutoTrading(enabled) ==
    /\ isAutoTradingEnabled' = enabled
    /\ orderSent' = NoOrder
    /\ acceptedAgain' = <<>>
    /\ UNCHANGED <<activeSignals, acceptedAt, now, batches, trades,
                   bitgetVars, pairVars>>

\* the clock advances
Tick(d) ==
    /\ now + d <= MaxClock
    /\ now' = now + d
    /\ orderSent' = NoOrder
    /\ acceptedAgain' = <<>>
    /\ UNCHANGED <<isAutoTradingEnabled, activeSignals, acceptedAt,
                   batches, trades, bitgetVars, pairVars>>

\* the runs of executeAutoTrades when one request for signals is served at a time
OneAtATime == {1}

\* getTradeSignals from the response of the ML service to its first await
\* inside executeAutoTrades, or to its end; the run it starts is one of `slots`
GetTradeSignalsIn(slots, timeframe, predictions) ==
    LET filteredSignals == FilterSignals(predictions, timeframe)
        accepted == {SignalKey(filteredSignals[i], timeframe) :
                        i \in 1..Len(filteredSignals)}
        starts == isAutoTradingEnabled /\ filteredSignals # <<>>
        free == {b \in slots : batches[b].phase \in {"idle", "done"}}
    IN  /\ starts => free # {}
        /\ activeSignals' = UpdateActiveSignals(filteredSignals, timeframe)
        /\ acceptedAt' = [k \in SignalKeys |-> IF k \in accepted THEN now ELSE acceptedAt[k]]
        /\ acceptedAgain' = [k \in {a \in accepted : acceptedAt[a] # -1} |->
                                now - acceptedAt[k]]
        /\ batches' = IF starts
                      THEN [batches EXCEPT ![CHOOSE b \in free : \A f \in free : b <= f] =
                               [IdleBatch EXCEPT !.phase = "balance",
                                                 !.signals = filteredSignals]]
                      ELSE batches
        /\ orderSent' = NoOrder
        /\ UNCHANGED <<isAutoTradingEnabled, now, trades, bitgetVars, pairVars>>

\* getTradeSignals while no other request for signals is being served
GetTradeSignals(timeframe, predictions) ==
    GetTradeSignalsIn(OneAtATime, timeframe, predictions)

\* executeAutoTrades from the answer of getAccountBalance to the next await
BalanceResolves(b, ok, accountInfo) ==
    /\ batches[b].phase = "balance"
    /\ LET r == [batches[b] EXCEPT !.answered = ok,
                                   !.accountInfo = IF ok THEN accountInfo ELSE <<>>]
           availableBalance == AvailableBalance(accountInfo)
           prioritizedSignals == SortSeq(r.signals, PrioritizedBefore)
           maxSignals == Min(Len(prioritizedSignals), maxConcurrentTrades)
           started == RunLoop([r EXCEPT !.balance = availableBalance,
                                        !.prioritized = prioritizedSignals,
                                        !.maxSignals = maxSignals,
                                        !.tradeSize = TradeSize(availableBalance, maxSignals)],
                              1, tradingPairs)
           after == IF ~ok THEN [r EXCEPT !.phase = "done", !.result = "threw"]
                    ELSE IF InsufficientBalance(availableBalance)
                         THEN [r EXCEPT !.phase = "done", !.result = "skipped",
                                        !.balance = availableBalance]
                         ELSE started
       IN  /\ batches' = [batches EXCEPT ![b] = after]
           /\ trades' = [trades EXCEPT ![<<"auto", b>>] = TradeOf(after)]
    /\ orderSent' = NoOrder
    /\ acceptedAgain' = <<>>
    /\ UNCHANGED <<isAutoTradingEnabled, activeSignals, acceptedAt, now, bitgetVars,
                   pairVars>>

\* placeOrder: the symbol with one '_UMCBL' suffix, and its part before '_'
CleanSymbol(symbol) ==
    IF EndsWith(symbol, <<"_", "UMCBL">>) THEN symbol ELSE symbol \o <<"_", "UMCBL">>

\* placeOrder's own check, against BitgetService's list
Approved(symbol, cache) == SplitFirst(CleanSymbol(symbol)) \in Range(cache.filteredSymbols)

\* the object executeTrade returns: result.status || 'executed', where the
\* answer to the POST of an order carries no status, and the stopLoss and
\* takeProfit that were handed to placeOrder
ExecuteTradeReturns(attempt, t, stopOrders) ==
    [attempt EXCEPT !.outcome = "returned", !.stopOrders = stopOrders,
                    !.status = "executed",
                    !.stopLoss = t.stopLoss, !.takeProfit = t.takeProfit]

\* the step of a call of executeTrade: it waits in the next phase, or it ends,
\* and with it the run of executeAutoTrades goes on to its next await;
\* stopOrders tells how placeStopOrders went, when it was called
TradeStepWith(tid, t, outcome, order, stopOrders) ==
    /\ orderSent' = order
    /\ acceptedAgain' = <<>>
    /\ IF outcome \notin {"returned", "threw"}
       THEN /\ trades' = [trades EXCEPT ![tid] = [t EXCEPT !.phase = outcome]]
            /\ UNCHANGED batches
       ELSE IF tid[1] = "manual"
            THEN /\ trades' = [trades EXCEPT ![tid] = IdleTrade]
                 /\ UNCHANGED batches
            ELSE LET r == batches[tid[2]]
                     last == r.attempted[Len(r.attempted)]
                     ended == [r EXCEPT
                                 !.attempted[Len(r.attempted)] =
                                     IF outcome = "returned"
                                     THEN ExecuteTradeReturns(last, t, stopOrders)
                                     ELSE [last EXCEPT !.outcome = outcome,
                                                       !.stopOrders = stopOrders],
                                 !.threw = IF outcome = "threw" THEN @ + 1 ELSE @]
                     after == RunLoop(ended,
                                      IF outcome = "threw"
                                      THEN NextAfterThrow(r.i, r.maxSignals)
                                      ELSE r.i + 1,
                                      tradingPairs)
                 IN  /\ batches' = [batches EXCEPT ![tid[2]] = after]
                     /\ trades' = [trades EXCEPT ![tid] = TradeOf(after)]

\* a step of executeTrade before placeStopOrders is reached
TradeStep(tid, t, outcome, order) ==
    TradeStepWith(tid, t, outcome, order, "none")

OrderFor(t) == [kind |-> "order", symbol |-> t.symbol, side |-> t.side, size |-> t.quantity]
StopOrdersFor(t) == [kind |-> "tpsl", symbol |-> t.symbol, side |-> t.side, size |-> t.quantity]

\* placeOrder up to its first answer from the network: with a valid cache the
\* check and the POST follow at once, else getFilteredTradingPairs asks first
PlaceOrder(tid, t, cache, fresh) ==
    IF ~(cache.cached /\ fresh) THEN TradeStep(tid, t, "approve", NoOrder)
    ELSE IF Approved(t.symbol, cache) THEN TradeStep(tid, t, "post", OrderFor(t))
    ELSE TradeStep(tid, t, "threw", NoOrder)

\* the price a manual trade names, in thousandths
ManualPrice == 1000

\* price * (1 - 0.02) for a buy, price * (1 + 0.02) for a sell
CalculateStopLoss(price, side) ==
    IF side = "buy" THEN (price * (100 - stopLossPercentage)) \div 100
    ELSE (price * (100 + stopLossPercentage)) \div 100

\* price * (1 + 0.05) for a buy, price * (1 - 0.05) for a sell
CalculateTakeProfit(price, side) ==
    IF side = "buy" THEN (price * (100 + takeProfitPercentage)) \div 100
    ELSE (price * (100 - takeProfitPercentage)) \div 100

\* executeTrade: stopLoss and takeProfit, not given by the caller, are
\* calculated from the current price
WithStops(t, price) ==
    [t EXCEPT !.stopLoss = CalculateStopLoss(price, t.side),
              !.takeProfit = CalculateTakeProfit(price, t.side)]

\* a manual trade: executeTrade called by the trade controller
ManualExecuteTrade(m, symbol, side, quantity, withPrice) ==
    LET tid == <<"manual", m>>
        t == [IdleTrade EXCEPT !.symbol = symbol, !.side = side, !.quantity = quantity]
    IN  /\ trades[tid].phase = "idle"
        /\ IF symbol \notin Range(tradingPairs)
           THEN /\ orderSent' = NoOrder
                /\ acceptedAgain' = <<>>
                /\ UNCHANGED <<trades, batches>>
           ELSE IF withPrice
                THEN PlaceOrder(tid, WithStops(t, ManualPrice), filteredPairsCache,
                                cacheFresh)
                ELSE /\ trades' = [trades EXCEPT ![tid] = [t EXCEPT !.phase = "price"]]
                     /\ orderSent' = NoOrder
                     /\ acceptedAgain' = <<>>
                     /\ UNCHANGED batches
        /\ UNCHANGED <<isAutoTradingEnabled, activeSignals, acceptedAt, now, bitgetVars,
                       pairVars>>

\* executeTrade from the answer of getCurrentPrice to the next answer awaited
PriceResolves(tid, snapshot, marketCapData) ==
    /\ trades[tid].phase = "price"
    /\ BitgetGetMarketData(snapshot, marketCapData)
    /\ LET t == trades[tid]
           cache == CacheAfterMarketData(snapshot, marketCapData)
           marketData == GetMarketData(snapshot, cache)
           found == \E k \in 1..Len(marketData) :
                        marketData[k].symbol = t.symbol \o <<"_", "UMCBL">>
           pair == marketData[CHOOSE k \in 1..Len(marketData) :
                                  marketData[k].symbol = t.symbol \o <<"_", "UMCBL">>]
       IN  IF found
           THEN PlaceOrder(tid, WithStops(t, pair.last * 1000), cache,
                           cacheFresh \/ CacheRecomputed(snapshot))
           ELSE TradeStep(tid, t, "threw", NoOrder)
    /\ UNCHANGED <<isAutoTradingEnabled, activeSignals, acceptedAt, now, pairVars>>

\* placeOrder from the answer of getFilteredTradingPairs to the POST of the order
ApproveResolves(tid, snapshot, marketCapData) ==
    /\ trades[tid].phase = "approve"
    /\ LET t == trades[tid]
           cache == GetFilteredTradingPairs(snapshot, marketCapData)
       IN  /\ filteredPairsCache' = cache
           /\ cacheFresh' = (cacheFresh \/ CacheRecomputed(snapshot))
           /\ IF Approved(t.symbol, cache)
              THEN TradeStep(tid, t, "post", OrderFor(t))
              ELSE TradeStep(tid, t, "threw", NoOrder)
    /\ UNCHANGED <<isAutoTradingEnabled, activeSignals, acceptedAt, now, pairVars>>

\* placeOrder from the answer to the POST: with an order id the stop orders
\* are sent, else placeOrder throws
PostResolves(tid, ok) ==
    /\ trades[tid].phase = "post"
    /\ IF ok
       THEN TradeStep(tid, trades[tid], "stops", StopOrdersFor(trades[tid]))
       ELSE TradeStep(tid, trades[tid], "threw", NoOrder)
    /\ UNCHANGED <<isAutoTradingEnabled, activeSignals, acceptedAt, now, bitgetVars,
                   pairVars>>

\* a placeOrder that lets the failure of a stop order escape
AfterStopOrdersRethrowing(ok) == IF ok THEN "returned" ELSE "threw"

\* placeOrder after placeStopOrders: each of the two requests has its own
\* catch, and the call is in a try whose catch only logs, so the answer to the
\* main order is returned either way
AfterStopOrders(ok) == "returned"

\* the stop orders are answered, well or not: placeOrder and executeTrade return
StopsResolve(tid, ok) ==
    /\ trades[tid].phase = "stops"
    /\ TradeStepWith(tid, trades[tid], AfterStopOrders(ok), NoOrder,
                     IF ok THEN "placed" ELSE "failed")
    /\ UNCHANGED <<isAutoTradingEnabled, activeSignals, acceptedAt, now, bitgetVars,
                   pairVars>>

-----------------------------------------------------------------------------
(* WebSocketServer: downstream clients and their subscriptions *)

HubClients == {"c1", "c2"}

\* the symbols client messages name: two USDT pairs and one that is none
HubSymbols == {<<"BTC", "USDT">>, <<"ETH", "USDT">>, <<"BTC", "USD">>}

\* the arrays a message can carry in its symbols field
SymbolArrays == UNION {[1..n -> HubSymbols] : n \in 0..MaxRequestLen}

NoSent == [client |-> "none", types |-> {}]
NoCall == [op |-> "none", symbols |-> {}]
NoPush == [via |-> "none", symbol |-> <<>>, event |-> "none", recipients |-> {}]

\* sendToClient: the message goes out only on an open socket
SendToClient(c, types) ==
    wsSent' = IF wsConn[c] = "OPEN" /\ types # {}
              THEN [client |-> c, types |-> types] ELSE NoSent

\* a call of marketDataSocket.subscribe or marketDataSocket.unsubscribe
CallUpstream(op, symbols) ==
    upstreamCall' = [op |-> op, symbols |-> symbols]

\* isSubscribedByOthers, over the subscription sets subs
IsSubscribedByOthers(c, symbol, subs) ==
    \E other \in wsClients : other # c /\ symbol \in subs[other]

\* a symbolsToUnsubscribe that leaves out the isSubscribedByOthers test
SymbolsToUnsubscribeUnchecked(c, symbols, subs) == symbols

\* symbolsToUnsubscribe: the symbols of `symbols` no other client subscribes
SymbolsToUnsubscribe(c, symbols, subs) ==
    {sym \in symbols : ~IsSubscribedByOthers(c, sym, subs)}

\* wss.on('connection')
WsConnection(c) ==
    /\ wsConn[c] = "none" /\ c \notin wsClients /\ c \notin wsPingTimers
    /\ wsConn' = [wsConn EXCEPT ![c] = "OPEN"]
    /\ wsClients' = wsClients \cup {c}
    /\ subscriptions' = [subscriptions EXCEPT ![c] = {}]
    /\ isAlive' = [isAlive EXCEPT ![c] = TRUE]
    /\ wsPingTimers' = wsPingTimers \cup {c}
    /\ everSubscribed' = [everSubscribed EXCEPT ![c] = {}]
    /\ wsSent' = [client |-> c, types |-> {"connection"}]
    /\ upstreamCall' = NoCall
    /\ pushed' = NoPush

\* the 30 s interval of a connection
WsPingTick(c) ==
    /\ c \in wsPingTimers
    /\ IF c \notin wsClients
       THEN /\ wsPingTimers' = wsPingTimers \ {c}
            /\ UNCHANGED <<wsConn, wsClients, isAlive>>
       ELSE IF ~isAlive[c]
       THEN /\ wsPingTimers' = wsPingTimers \ {c}
            /\ wsClients' = wsClients \ {c}
            /\ wsConn' = [wsConn EXCEPT ![c] = IF @ = "none" THEN "none" ELSE "CLOSING"]
            /\ UNCHANGED isAlive
       ELSE /\ isAlive' = [isAlive EXCEPT ![c] = FALSE]
            /\ UNCHANGED <<wsConn, wsClients, wsPingTimers>>
    /\ wsSent' = NoSent /\ upstreamCall' = NoCall
    /\ UNCHANGED <<subscriptions, everSubscribed>>
    /\ pushed' = NoPush

\* ws.on('pong')
WsPong(c) ==
    /\ wsConn[c] = "OPEN"
    /\ isAlive' = IF c \in wsClients THEN [isAlive EXCEPT ![c] = TRUE] ELSE isAlive
    /\ wsSent' = NoSent /\ upstreamCall' = NoCall
    /\ UNCHANGED <<wsConn, wsClients, subscriptions, wsPingTimers, everSubscribed>>
    /\ pushed' = NoPush

\* the peer closes, or the socket breaks: readyState leaves OPEN and the
\* 'close' event is still to come
WsSocketCloses(c) ==
    /\ wsConn[c] = "OPEN"
    /\ wsConn' = [wsConn EXCEPT ![c] = "CLOSING"]
    /\ wsSent' = NoSent /\ upstreamCall' = NoCall
    /\ UNCHANGED <<wsClients, subscriptions, isAlive, wsPingTimers, everSubscribed>>
    /\ pushed' = NoPush

\* handleSubscribe with an array; `threw`: marketDataSocket.subscribe throws
\* (no MarketDataSocket under src defines it)
HandleSubscribe(c, symbols, threw) ==
    LET requested == Range(symbols)
        validSymbols == {sym \in requested : EndsWith(sym, <<"USDT">>)}
        errors == IF validSymbols # requested THEN {"error"} ELSE {}
    IN  /\ subscriptions' = [subscriptions EXCEPT ![c] = @ \cup validSymbols]
        /\ everSubscribed' = [everSubscribed EXCEPT ![c] = @ \cup validSymbols]
        /\ IF validSymbols # {}
           THEN /\ CallUpstream("subscribe", validSymbols)
                /\ SendToClient(c, errors \cup (IF threw THEN {"error"} ELSE {"subscribed"}))
           ELSE /\ upstreamCall' = NoCall
                /\ SendToClient(c, errors)
        /\ UNCHANGED <<wsConn, wsClients, isAlive, wsPingTimers>>

\* unsubscribeClientFromAllSymbols: the new subscription sets and the upstream
\* call; `threw`: marketDataSocket.unsubscribe throws
UnsubscribeClientFromAllSymbols(c) ==
    LET toUnsubscribe == SymbolsToUnsubscribe(c, subscriptions[c], subscriptions)
    IN  /\ subscriptions' = [subscriptions EXCEPT ![c] = {}]
        /\ IF toUnsubscribe # {}
           THEN CallUpstream("unsubscribe", toUnsubscribe)
           ELSE upstreamCall' = NoCall

\* unsubscribeClientFromAllSymbols reaches its upstream call
UnsubscribeAllCalls(c) ==
    SymbolsToUnsubscribe(c, subscriptions[c], subscriptions) # {}

\* handleUnsubscribe without a symbols field
HandleUnsubscribeAll(c, threw) ==
    /\ UnsubscribeClientFromAllSymbols(c)
    /\ SendToClient(c, IF UnsubscribeAllCalls(c) /\ threw THEN {"error"} ELSE {})
    /\ UNCHANGED <<wsConn, wsClients, isAlive, wsPingTimers, everSubscribed>>

\* handleUnsubscribe with an array of symbols
HandleUnsubscribe(c, symbols, threw) ==
    LET requested == Range(symbols)
        subs == [subscriptions EXCEPT ![c] = @ \ requested]
        toUnsubscribe == SymbolsToUnsubscribe(c, requested, subs)
    IN  /\ subscriptions' = subs
        /\ IF toUnsubscribe # {}
           THEN /\ CallUpstream("unsubscribe", toUnsubscribe)
                /\ SendToClient(c, IF threw THEN {"error"} ELSE {"unsubscribed"})
           ELSE /\ upstreamCall' = NoCall
                /\ SendToClient(c, {"unsubscribed"})
        /\ UNCHANGED <<wsConn, wsClients, isAlive, wsPingTimers, everSubscribed>>

\* an unknown message type
HandleUnknown(c) ==
    /\ SendToClient(c, {"error"})
    /\ upstreamCall' = NoCall
    /\ UNCHANGED <<wsConn, wsClients, subscriptions, isAlive, wsPingTimers,
                   everSubscribed>>

\* ws.on('message') for a parsed message: handleClientMessage
WsSubscribeMessage(c, symbols, threw) ==
    /\ wsConn[c] = "OPEN" /\ c \in wsClients
    /\ pushed' = NoPush
    /\ HandleSubscribe(c, symbols, threw)

WsUnsubscribeMessage(c, symbols, threw) ==
    /\ wsConn[c] = "OPEN" /\ c \in wsClients
    /\ pushed' = NoPush
    /\ HandleUnsubscribe(c, symbols, threw)

WsUnsubscribeAllMessage(c, threw) ==
    /\ wsConn[c] = "OPEN" /\ c \in wsClients
    /\ pushed' = NoPush
    /\ HandleUnsubscribeAll(c, threw)

WsUnknownMessage(c) ==
    /\ wsConn[c] = "OPEN" /\ c \in wsClients
    /\ pushed' = NoPush
    /\ HandleUnknown(c)

\* ws.on('close'); `threw`: marketDataSocket.unsubscribe throws, which ends
\* the handler before this.clients.delete
WsClose(c, threw) ==
    /\ wsConn[c] = "CLOSING"
    /\ wsConn' = [wsConn EXCEPT ![c] = "none"]
    /\ wsPingTimers' = wsPingTimers \ {c}
    /\ IF c \in wsClients
       THEN /\ UnsubscribeClientFromAllSymbols(c)
            /\ wsClients' = IF UnsubscribeAllCalls(c) /\ threw
                            THEN wsClients ELSE wsClients \ {c}
       ELSE /\ upstreamCall' = NoCall
            /\ UNCHANGED <<subscriptions, wsClients>>
    /\ wsSent' = NoSent
    /\ UNCHANGED <<isAlive, everSubscribed>>
    /\ pushed' = NoPush

\* the clients broadcastMarketData sends an event for `symbol` to
BroadcastRecipients(symbol) ==
    {c \in wsClients : symbol \in subscriptions[c] /\ wsConn[c] = "OPEN"}

\* broadcastMarketData(data): the listener of the 'marketData' event
BroadcastMarketData(symbol) ==
    /\ pushed' = [via |-> "wsServer", symbol |-> symbol, event |-> "none",
                  recipients |-> BroadcastRecipients(symbol)]
    /\ wsSent' = NoSent /\ upstreamCall' = NoCall
    /\ UNCHANGED <<wsConn, wsClients, subscriptions, isAlive, wsPingTimers,
                   everSubscribed>>

-----------------------------------------------------------------------------
(* utils/indicators.js: isUniqueSignal. Timestamps are in seconds. *)

\* sameSideSignals.reduce: the signal with the latest timestamp, the earlier
\* one of two with the same timestamp
RECURSIVE MostRecentSignal(_, _, _)
MostRecentSignal(signals, i, latest) ==
    IF i > Len(signals) THEN latest
    ELSE MostRecentSignal(signals, i + 1,
             IF signals[i].timestamp > latest.timestamp THEN signals[i] ELSE latest)

\* sameTimeframeSignals.filter(s => s.type === newSignal.type)
SameSide(signals, newSignal) ==
    SelectSeq(signals, LAMBDA s : s.type = newSignal.type)

isUniqueSignal(newSignal, recentSignals, timeframe) ==
    LET sameTimeframeSignals == SelectSeq(recentSignals, LAMBDA s : s.timeframe = timeframe)
        sameSideSignals == SameSide(sameTimeframeSignals, newSignal)
        mostRecentSignal == MostRecentSignal(sameSideSignals, 1, sameSideSignals[1])
        timeDiff == newSignal.timestamp - mostRecentSignal.timestamp
        minWindow == timeWindows(timeframe)
    IN  IF Len(sameTimeframeSignals) = 0 THEN TRUE
        ELSE IF Len(sameSideSignals) = 0 THEN TRUE
        ELSE timeDiff > minWindow * 60

\* the signals a caller may hold: two symbols, both directions, two
\* timeframes, emitted at 0:00 and at 0:25
RecentSignalPool ==
    {[symbol |-> Sym(name), type |-> type, timeframe |-> timeframe, timestamp |-> t] :
        name \in {"BTC", "ETH"}, type \in {"LONG", "SHORT"},
        timeframe \in {"15m", "1h"}, t \in {0, 1500}}

\* the new signals: 5 minutes, 30 minutes, one hour, and one second more
\* than one hour after 0:00
NewSignalPool ==
    {[symbol |-> Sym(name), type |-> type, timestamp |-> t] :
        name \in {"BTC", "ETH"}, type \in {"LONG", "SHORT"},
        t \in {300, 1800, 3600, 3601}}

RecentSignalLists == UNION {[1..n -> RecentSignalPool] : n \in 0..MaxRecentSignals}

NoUniqueCall == [phase |-> "none"]

UniqueCalls ==
    {[phase |-> "called", newSignal |-> newSignal, recentSignals |-> recentSignals,
      timeframe |-> timeframe] :
        newSignal \in NewSignalPool, recentSignals \in RecentSignalLists,
        timeframe \in {"15m", "1h"}}

\* the call returns
IsUniqueSignalReturns ==
    /\ uniqueCall.phase = "called"
    /\ uniqueCall' = [phase |-> "returned", newSignal |-> uniqueCall.newSignal,
                      recentSignals |-> uniqueCall.recentSignals,
                      timeframe |-> uniqueCall.timeframe,
                      result |-> isUniqueSignal(uniqueCall.newSignal,
                                                uniqueCall.recentSignals,
                                                uniqueCall.timeframe)]

-----------------------------------------------------------------------------
(* utils/indicators.js: stop loss and take profit. Prices are in thousandths;
   the inputs are chosen so that every product below is a whole number of
   thousandths, which toFixed(8) leaves as it is. *)

Max(a, b) == IF a >= b THEN a ELSE b

\* Math.min(...values) and Math.max(...values)
MinOf(values) == CHOOSE v \in Range(values) : \A w \in Range(values) : v <= w
MaxOf(values) == CHOOSE v \in Range(values) : \A w \in Range(values) : v >= w

\* the last 20 elements: slice(-20)
recentCandles == 20
Recent(values) == SubSeq(values, Max(1, Len(values) - recentCandles + 1), Len(values))

\* Math.min(...recentLows) and Math.max(...recentHighs)
NearestSupport(candles) == MinOf(Recent([i \in 1..Len(candles) |-> candles[i].low]))
NearestResistance(candles) == MaxOf(Recent([i \in 1..Len(candles) |-> candles[i].high]))

\* entryPrice * volatilityFactor, the factor being atr / entryPrice kept
\* between 0.005 and 0.03; calculateATR answers null (here 0) without 15 candles
IdealStopDistance(entryPrice, atr) ==
    Min(Max(atr, (entryPrice * 5) \div 1000), (entryPrice * 30) \div 1000)

NoRisk == [stopLoss |-> 0, takeProfit |-> 0]

\* nearestResistance * 1.01 and nearestSupport * 0.99
CapNearLevel(level, percent) == (level * percent) \div 100

\* calculateOptimizedRiskParameters, the ATR being what calculateATR answers
calculateOptimizedRiskParameters(signalType, entryPrice, candles, atr) ==
    LET nearestSupport == NearestSupport(candles)
        nearestResistance == NearestResistance(candles)
        idealStopDistance == IdealStopDistance(entryPrice, atr)
    IN  IF signalType = "LONG"
        THEN LET supportBasedStop == Max((nearestSupport * 998) \div 1000,
                                         entryPrice - (idealStopDistance * 3) \div 2)
                 stopLoss == Max(entryPrice - idealStopDistance, supportBasedStop)
                 riskAmount == entryPrice - stopLoss
                 takeProfit == entryPrice + (riskAmount * 5) \div 2
             IN  [stopLoss |-> stopLoss,
                  takeProfit |-> IF takeProfit > nearestResistance
                                 THEN CapNearLevel(nearestResistance, 101)
                                 ELSE takeProfit]
        ELSE LET resistanceBasedStop == Min((nearestResistance * 1002) \div 1000,
                                            entryPrice + (idealStopDistance * 3) \div 2)
                 stopLoss == Min(entryPrice + idealStopDistance, resistanceBasedStop)
                 riskAmount == stopLoss - entryPrice
                 takeProfit == entryPrice - (riskAmount * 5) \div 2
             IN  [stopLoss |-> stopLoss,
                  takeProfit |-> IF takeProfit < nearestSupport
                                 THEN CapNearLevel(nearestSupport, 99)
                                 ELSE takeProfit]

\* generateAIEnhancedSignal from the net score of its indicators (in
\* hundredths) on: the signal, or null (NoRisk) below a confidence of 75
generateAIEnhancedSignal(netScore, candles, atr) ==
    LET currentPrice == candles[Len(candles)].close
        signalType == IF netScore > 50 THEN "LONG"
                      ELSE IF netScore < -50 THEN "SHORT" ELSE "none"
        confidence == IF signalType = "none" THEN 0
                      ELSE Min(IF netScore < 0 THEN -netScore ELSE netScore, 100)
    IN  IF atr = 0 \/ confidence < 75 THEN NoRisk
        ELSE IF signalType = "LONG"
        THEN [stopLoss |-> currentPrice - atr * 2, takeProfit |-> currentPrice + atr * 4]
        ELSE [stopLoss |-> currentPrice + atr * 2, takeProfit |-> currentPrice - atr * 4]

\* 21 candles that close at `close`: the oldest with its own high and low, the
\* last 20 with one at the high and one at the low
CandleSeries(old, low, high, close) ==
    <<[high |-> old.high, low |-> old.low, close |-> close]>>
    \o [i \in 1..recentCandles |->
           [high |-> IF i = 7 THEN high ELSE high - 1000,
            low |-> IF i = 12 THEN low ELSE low + 1000,
            close |-> close]]

RiskEntryPrice == 100000

RiskCandles ==
    {CandleSeries(old, low, high, RiskEntryPrice) :
        old \in {[high |-> 101000, low |-> 99000], [high |-> 200000, low |-> 10000]},
        low \in {80000, 99000}, high \in {103000, 120000}}

\* what calculateATR answers: null, 0.4, 2 and 5
RiskAtrs == {0, 400, 2000, 5000}

\* the entry prices: the last close, and a price above every recent high
RiskEntryPrices == {RiskEntryPrice, RiskEntryPrice + 10000}

NoRiskCall ==
    [phase |-> "none", fn |-> "", signalType |-> "", entryPrice |-> 0, netScore |-> 0,
     atr |-> 0, candles |-> <<>>, result |-> NoRisk]

RiskCalls ==
    {[phase |-> "called", fn |-> "calculateOptimizedRiskParameters", signalType |-> t,
      entryPrice |-> e, netScore |-> 0, atr |-> a, candles |-> c, result |-> NoRisk] :
        t \in {"LONG", "SHORT"}, e \in RiskEntryPrices, a \in RiskAtrs, c \in RiskCandles}
    \cup {[phase |-> "called", fn |-> "generateAIEnhancedSignal",
           signalType |-> IF n > 0 THEN "LONG" ELSE "SHORT", entryPrice |-> RiskEntryPrice,
           netScore |-> n, atr |-> a, candles |-> c, result |-> NoRisk] :
             n \in {-80, -60, 60, 80}, a \in RiskAtrs, c \in RiskCandles}

\* the call returns
RiskCallReturns ==
    /\ riskCall.phase = "called"
    /\ riskCall' =
          [riskCall EXCEPT
              !.phase = "returned",
              !.result = IF riskCall.fn = "generateAIEnhancedSignal"
                         THEN generateAIEnhancedSignal(riskCall.netScore, riskCall.candles,
                                                       riskCall.atr)
                         ELSE calculateOptimizedRiskParameters(
                                  riskCall.signalType, riskCall.entryPrice, riskCall.candles,
                                  riskCall.atr)]

-----------------------------------------------------------------------------
(* MarketDataSocket: the upstream messages and the clients of server.js *)

\* the instruments upstream and client messages name: two of the fallback
\* symbols and one outside them
MdsInstIds == {InstId(<<"BTC">>), InstId(<<"ETH">>), InstId(<<"TRX">>)}

MdsChannels == {"ticker", "candle15m"}

InstIdArrays == UNION {[1..n -> MdsInstIds] : n \in 0..MaxRequestLen}

\* handleConnection, called by wss.on('connection') of server.js
HandleConnection(c) ==
    /\ clientState[c] = "none"
    /\ clients' = clients \cup {c}
    /\ clientState' = [clientState EXCEPT ![c] = "OPEN"]
    /\ clientRequested' = [clientRequested EXCEPT ![c] = {}]
    /\ wsSent' = IF DOMAIN cachedMarketData # {}
                 THEN [client |-> c, types |-> {"snapshot"}] ELSE NoSent
    /\ pushed' = NoPush
    /\ UNCHANGED cacheVars

\* the client socket leaves OPEN; its 'close' event is still to come
ClientSocketCloses(c) ==
    /\ clientState[c] = "OPEN"
    /\ clientState' = [clientState EXCEPT ![c] = "CLOSING"]
    /\ wsSent' = NoSent /\ pushed' = NoPush
    /\ UNCHANGED <<clients, clientRequested, cacheVars>>

\* handleDisconnection, called by ws.on('close') of server.js
HandleDisconnection(c) ==
    /\ clientState[c] = "CLOSING"
    /\ clients' = clients \ {c}
    /\ clientState' = [clientState EXCEPT ![c] = "none"]
    /\ wsSent' = NoSent /\ pushed' = NoPush
    /\ UNCHANGED <<clientRequested, cacheVars>>

\* handleClientMessage for { type: 'subscribe', symbols }: it answers with the
\* cached data of the allowed symbols and stores nothing
HandleClientMessage(c, symbols) ==
    LET filteredSymbols == FilterSeq(symbols, {sym \in Range(symbols) : SplitFirst(sym) \in activeSymbols})
    IN  /\ clientState[c] = "OPEN"
        /\ wsSent' = IF Len(filteredSymbols) > 0
                     THEN [client |-> c, types |-> {"subscription_data"}] ELSE NoSent
        /\ clientRequested' = [clientRequested EXCEPT ![c] = @ \cup Range(symbols)]
        /\ pushed' = NoPush
        /\ UNCHANGED <<clients, clientState, cacheVars>>

\* _broadcastToClients: every client whose socket is open
BroadcastToClients(instId, event) ==
    pushed' = [via |-> "marketDataSocket", symbol |-> instId, event |-> event,
               recipients |-> {c \in clients : clientState[c] = "OPEN"}]

\* object[key] = value of JavaScript: the key is added or its value replaced
Put(object, key, value) ==
    [k \in DOMAIN object \cup {key} |-> IF k = key THEN value ELSE object[k]]

\* the items of the data arrays the feed sends, with the time the exchange
\* stamped them with
FeedItem(ts) == [ts |-> ts, last |-> 100 + ts]

\* message.data: a newer item, an older one, and a push of two items
FeedData == {<<FeedItem(2)>>, <<FeedItem(1)>>, <<FeedItem(1), FeedItem(2)>>}

\* data[0] || data, where data[0] is an object
FirstItem(data) == data[1]

\* the variant that starts the instrument's object afresh on every message
CacheWriteFresh(cache, instId, channel, entry) ==
    Put(cache, instId, Put(<<>>, channel, entry))

\* if (!cache[instId]) cache[instId] = {}; cache[instId][channel] = entry
CacheWrite(cache, instId, channel, entry) ==
    Put(cache, instId,
        Put(IF instId \in DOMAIN cache THEN cache[instId] ELSE <<>>, channel, entry))

\* the event _processMarketData emits for a channel
EventOf(channel) ==
    IF channel = "ticker" THEN "ticker"
    ELSE IF channel = "candle15m" THEN "candle"
    ELSE IF channel = "trade" THEN "trade"
    ELSE IF channel \in {"depth5", "depth15"} THEN "depth"
    ELSE "data"

\* a test that lets every instrument pass
TrackedAlways(instId, symbols) == TRUE

\* this.activeSymbols.has(instId.split('_')[0])
Tracked(instId, symbols) == SplitFirst(instId) \in symbols

\* _handleMessage with a data message of the upstream socket: _processMarketData
ProcessMarketData(instId, channel, data) ==
    /\ wsState = "OPEN"
    /\ IF ~Tracked(instId, activeSymbols)
       THEN /\ pushed' = NoPush
            /\ UNCHANGED cacheVars
       ELSE /\ cachedMarketData' =
                   CacheWrite(cachedMarketData, instId, channel,
                              [data |-> FirstItem(data), timestamp |-> now])
            /\ lastArrived' = [lastArrived EXCEPT ![<<instId, channel>>] = data]
            /\ lastUpdated' = now
            /\ UNCHANGED fallbackRequests
            /\ BroadcastToClients(instId, EventOf(channel))
    /\ wsSent' = NoSent
    /\ UNCHANGED <<clients, clientState, clientRequested>>

\* getFallbackMarketData up to its await: with a cache it returns the cache,
\* without one it asks the exchange
GetFallbackMarketData ==
    /\ IF DOMAIN cachedMarketData # {}
       THEN UNCHANGED fallbackRequests
       ELSE /\ fallbackRequests < MaxFallbackRequests
            /\ fallbackRequests' = fallbackRequests + 1
    /\ wsSent' = NoSent
    /\ pushed' = NoPush
    /\ UNCHANGED <<clients, clientState, clientRequested, cachedMarketData, lastArrived,
                   lastUpdated>>

\* formattedData: a ticker entry for every item of an active '_USDT' symbol
FormattedData(marketData, symbols) ==
    LET wanted == {k \in 1..Len(marketData) :
                      \E sym \in symbols : marketData[k].symbol = InstId(sym)}
    IN  [instId \in {marketData[k].symbol : k \in wanted} |->
            LET k == CHOOSE j \in wanted :
                        /\ marketData[j].symbol = instId
                        /\ \A h \in wanted : marketData[h].symbol = instId => h <= j
            IN  Put(<<>>, "ticker",
                    [data |-> [symbol |-> instId, last |-> marketData[k].last],
                     timestamp |-> now])]

\* _generateSyntheticMarketData: an entry for every active symbol; `price`
\* stands for the numbers Math.random gives
GenerateSyntheticMarketData(symbols, price) ==
    [instId \in {InstId(sym) : sym \in symbols} |->
        Put(<<>>, "ticker",
            [data |-> [symbol |-> instId, last |-> price], timestamp |-> now])]

SyntheticPrices == {7}

\* getFallbackMarketData from the answer of getMarketData on: the cache is
\* assigned the formatted answer, or synthetic data when there is none
FallbackResolves(snapshot, marketCapData, price) ==
    /\ fallbackRequests > 0
    /\ fallbackRequests' = fallbackRequests - 1
    /\ BitgetGetMarketData(snapshot, marketCapData)
    /\ LET marketData ==
               GetMarketData(snapshot, CacheAfterMarketData(snapshot, marketCapData))
           formattedData == FormattedData(marketData, activeSymbols)
       IN  cachedMarketData' =
               IF marketData = <<>> \/ DOMAIN formattedData = {}
               THEN GenerateSyntheticMarketData(activeSymbols, price)
               ELSE formattedData
    /\ lastUpdated' = now
    /\ wsSent' = NoSent
    /\ pushed' = NoPush
    /\ UNCHANGED <<clients, clientState, clientRequested, lastArrived>>

\* what JSON.parse makes of a frame of the upstream socket: it throws, or the
\* message is a pong, a subscription answer, an error answer, or carries data
UpstreamFrames ==
    {[kind |-> k, instId |-> <<>>, channel |-> "", data |-> <<>>] :
        k \in {"unparsable", "pong", "subscribe", "error", "data"}}
    \cup {[kind |-> "data", instId |-> InstId(<<"BTC">>), channel |-> "ticker",
           data |-> <<FeedItem(1)>>]}

\* the data messages of the feed, for instruments tracked or not
FeedFrames ==
    {[kind |-> "data", instId |-> instId, channel |-> channel, data |-> <<FeedItem(1)>>] :
        instId \in MdsInstIds, channel \in MdsChannels}

NoFrame == [kind |-> "none", instId |-> <<>>, channel |-> "", data |-> <<>>]

\* _handleMessage: the catch logs what JSON.parse or _processMarketData throws
HandleMessage(frame) ==
    /\ wsState = "OPEN"
    /\ IF frame.kind = "data" /\ Len(frame.data) > 0
       THEN ProcessMarketData(frame.instId, frame.channel, frame.data)
       ELSE /\ wsSent' = NoSent
            /\ pushed' = NoPush
            /\ UNCHANGED mdsVars

\* a frame arrives on the upstream socket and _handleMessage handles it
UpstreamMessage(frame) ==
    /\ HandleMessage(frame)
    /\ handledFrame' = frame

\* the events of the MarketDataSocket that have a listener: wsServer listens
\* for 'marketData', nothing listens for 'error'
SocketListeners == {"marketData"}

\* emit('error') without a listener throws out of the socket's event handler;
\* process.on('uncaughtException') logs and sets a timer for process.exit(1)
ExitScheduled == "error" \in emitted /\ "error" \notin SocketListeners

-----------------------------------------------------------------------------
(* WebSocketServer: the values a client message carries *)

\* the values of JavaScript a symbols field can hold besides an array
JsUndefined == [js |-> "undefined", items |-> <<>>]
JsNull == [js |-> "null", items |-> <<>>]
JsString == [js |-> "string", items |-> <<"BTC", "USDT">>]
JsArray(symbols) == [js |-> "array", items |-> symbols]

\* !value
Falsy(value) == value.js \in {"undefined", "null"}

\* Array.isArray(value)
IsArray(value) == value.js = "array"

NoMessage == [client |-> "none", type |-> "none", symbols |-> JsUndefined]

\* handleClientMessage: the switch on data.type, and the tests handleSubscribe
\* and handleUnsubscribe make of data.symbols
WsHandleClientMessage(c, type, symbols, threw) ==
    CASE type = "subscribe" ->
            IF Falsy(symbols) \/ ~IsArray(symbols)
            THEN HandleUnknown(c)
            ELSE HandleSubscribe(c, symbols.items, threw)
      [] type = "unsubscribe" ->
            IF Falsy(symbols) THEN HandleUnsubscribeAll(c, threw)
            ELSE IF ~IsArray(symbols) THEN HandleUnknown(c)
            ELSE HandleUnsubscribe(c, symbols.items, threw)
      [] OTHER -> HandleUnknown(c)

\* ws.on('message'): JSON.parse, then handleClientMessage
WsMessage(c, type, symbols, threw) ==
    /\ wsConn[c] = "OPEN" /\ c \in wsClients
    /\ pushed' = NoPush
    /\ WsHandleClientMessage(c, type, symbols, threw)
    /\ clientMessage' = [client |-> c, type |-> type, symbols |-> symbols]

-----------------------------------------------------------------------------
(* Specifications *)

\* no refresh has assigned its lists
NoRankInput ==
    [by |-> "none", marketData |-> <<>>, marketCapData |-> <<>>, assigned |-> FALSE,
     previous |-> {}]

InitServices ==
    /\ wsState = "null"
    /\ oldSockets = [CONNECTING |-> 0, OPEN |-> 0]
    /\ isConnected = FALSE
    /\ pingInterval = FALSE
    /\ pingTimers = 0
    /\ reconnectAttempts = 0
    /\ reconnectTimers = <<>>
    /\ subscribedChannels = {}
    /\ emitted = {}
    /\ reconnectsSinceOpen = 0
    /\ lastReconnectDelay = 0
    /\ initPhase = "constructed"
    /\ activeSymbols = {}
    /\ selectedPairs = [largeCapPairs |-> <<>>, midCapPairs |-> <<>>]
    /\ filteredPairsCache = EmptyPairs
    /\ cacheFresh = FALSE
    /\ tradingPairs = <<>>
    /\ largecapPairs = <<>>
    /\ midcapPairs = <<>>
    /\ wsConn = [c \in HubClients |-> "none"]
    /\ wsClients = {}
    /\ subscriptions = [c \in HubClients |-> {}]
    /\ isAlive = [c \in HubClients |-> FALSE]
    /\ wsPingTimers = {}
    /\ wsSent = NoSent
    /\ upstreamCall = NoCall
    /\ everSubscribed = [c \in HubClients |-> {}]
    /\ pushed = NoPush
    /\ clients = {}
    /\ clientState = [c \in HubClients |-> "none"]
    /\ clientRequested = [c \in HubClients |-> {}]
    /\ cachedMarketData = <<>>
    /\ lastArrived = [key \in MdsInstIds \X MdsChannels |-> <<>>]
    /\ lastUpdated = 0
    /\ fallbackRequests = 0
    /\ handledFrame = NoFrame
    /\ isAutoTradingEnabled = FALSE
    /\ activeSignals = <<>>
    /\ acceptedAt = [k \in SignalKeys |-> -1]
    /\ acceptedAgain = <<>>
    /\ now = 0
    /\ batches = [b \in BatchIds |-> IdleBatch]
    /\ trades = [tid \in TradeIds |-> IdleTrade]
    /\ orderSent = NoOrder

Init ==
    /\ InitServices
    /\ uniqueCall = NoUniqueCall
    /\ rankInput = NoRankInput
    /\ clientMessage = NoMessage
    /\ riskCall = NoRiskCall
    /\ subscribeCall = NoSubscribeCall

\* the ticker lists the feed's startup sees: none, and one of '_USDT' names
FeedSnapshots == {<<>>, Snapshot(Len(LargeCapNames) + 2, "SPOT", "desc")}

FeedNext ==
    \/ \E snapshot \in FeedSnapshots :
          /\ initPhase = "constructed"
          /\ MdsUpdateTradingPairs(snapshot, <<>>)
          /\ UNCHANGED refreshFrame
    \/ \E threw \in BOOLEAN : InitConnect(threw) /\ UNCHANGED feedFrame
    \/ SocketOpen /\ UNCHANGED feedFrame
    \/ OldSocketOpen /\ UNCHANGED feedFrame
    \/ SocketClose /\ UNCHANGED feedFrame
    \/ OldSocketClose /\ UNCHANGED feedFrame
    \/ SocketError /\ UNCHANGED feedFrame
    \/ \E threw \in BOOLEAN : PingTick(threw) /\ UNCHANGED feedFrame
    \/ \E threw \in BOOLEAN : ReconnectTimerFires(threw) /\ UNCHANGED feedFrame

SpecFeed == Init /\ [][FeedNext]_vars

HubNext ==
    \/ \E c \in HubClients : WsConnection(c) /\ UNCHANGED hubFrame
    \/ \E c \in HubClients : WsPingTick(c) /\ UNCHANGED hubFrame
    \/ \E c \in HubClients : WsPong(c) /\ UNCHANGED hubFrame
    \/ \E c \in HubClients : WsSocketCloses(c) /\ UNCHANGED hubFrame
    \/ \E c \in HubClients, symbols \in SymbolArrays, threw \in BOOLEAN :
          WsSubscribeMessage(c, symbols, threw) /\ UNCHANGED hubFrame
    \/ \E c \in HubClients, symbols \in SymbolArrays, threw \in BOOLEAN :
          WsUnsubscribeMessage(c, symbols, threw) /\ UNCHANGED hubFrame
    \/ \E c \in HubClients, threw \in BOOLEAN :
          WsUnsubscribeAllMessage(c, threw) /\ UNCHANGED hubFrame
    \/ \E c \in HubClients : WsUnknownMessage(c) /\ UNCHANGED hubFrame
    \/ \E c \in HubClients, threw \in BOOLEAN : WsClose(c, threw) /\ UNCHANGED hubFrame
    \/ \E symbol \in HubSymbols : BroadcastMarketData(symbol) /\ UNCHANGED hubFrame

SpecHub == Init /\ [][HubNext]_vars

\* the symbols of subscribe messages once the selector has refreshed: one of
\* the active set, one outside it, and one that does not end with USDT
SubscribeSymbols == {<<"BTC", "USDT">>, <<"TRX", "USDT">>, <<"BTC", "USD">>}

SubscribeArrays == UNION {[1..n -> SubscribeSymbols] : n \in 0..MaxRequestLen}

\* a risk computation is called with any of the arguments, and returns
InitRisk ==
    /\ InitServices
    /\ uniqueCall = NoUniqueCall
    /\ rankInput = NoRankInput
    /\ clientMessage = NoMessage
    /\ riskCall \in RiskCalls
    /\ subscribeCall = NoSubscribeCall

RiskNext == RiskCallReturns /\ UNCHANGED riskFrame

\* _subscribeToChannel is called with any of the arguments, and returns
InitBatches ==
    /\ InitServices
    /\ uniqueCall = NoUniqueCall
    /\ rankInput = NoRankInput
    /\ clientMessage = NoMessage
    /\ riskCall = NoRiskCall
    /\ subscribeCall \in SubscribeCalls

BatchesNext == SubscribeToChannelReturns /\ UNCHANGED batchFrame

SpecBatches == InitBatches /\ [][BatchesNext]_vars

SpecRisk == InitRisk /\ [][RiskNext]_vars

\* the selector refreshes at startup; clients connect, subscribe and leave
SubscribeNext ==
    \/ initPhase = "constructed" /\ MdsUpdateTradingPairs(<<>>, <<>>)
                                 /\ UNCHANGED refreshFrame
    \/ \E c \in HubClients : WsConnection(c) /\ UNCHANGED hubFrame
    \/ \E c \in HubClients, symbols \in SubscribeArrays, threw \in BOOLEAN :
          WsSubscribeMessage(c, symbols, threw) /\ UNCHANGED hubFrame
    \/ \E c \in HubClients : WsSocketCloses(c) /\ UNCHANGED hubFrame
    \/ \E c \in HubClients, threw \in BOOLEAN : WsClose(c, threw) /\ UNCHANGED hubFrame

SpecSubscribe == Init /\ [][SubscribeNext]_vars

\* the types and the symbols fields of the messages clients send
MessageTypes == {"subscribe", "unsubscribe", "status"}

MessageSymbols ==
    {JsUndefined, JsNull, JsString, JsArray(<<>>), JsArray(<< <<"BTC", "USDT">> >>),
     JsArray(<< <<"ETH", "USDT">> >>)}

\* clients connect, send messages of every type and shape, and leave
ProtocolNext ==
    \/ \E c \in HubClients :
          WsConnection(c) /\ clientMessage' = NoMessage /\ UNCHANGED messageFrame
    \/ \E c \in HubClients, type \in MessageTypes, symbols \in MessageSymbols,
             threw \in BOOLEAN :
          WsMessage(c, type, symbols, threw) /\ UNCHANGED messageFrame
    \/ \E c \in HubClients :
          WsSocketCloses(c) /\ clientMessage' = NoMessage /\ UNCHANGED messageFrame
    \/ \E c \in HubClients, threw \in BOOLEAN :
          WsClose(c, threw) /\ clientMessage' = NoMessage /\ UNCHANGED messageFrame

SpecProtocol == Init /\ [][ProtocolNext]_vars

\* the feed comes up and stays up; clients come and go and messages arrive
MdsNext ==
    \/ initPhase = "constructed" /\ MdsUpdateTradingPairs(<<>>, <<>>)
                                 /\ UNCHANGED refreshFrame
    \/ InitConnect(FALSE) /\ UNCHANGED feedFrame
    \/ SocketOpen /\ UNCHANGED feedFrame
    \/ \E c \in HubClients : HandleConnection(c) /\ UNCHANGED mdsFrame
    \/ \E c \in HubClients : ClientSocketCloses(c) /\ UNCHANGED mdsFrame
    \/ \E c \in HubClients : HandleDisconnection(c) /\ UNCHANGED mdsFrame
    \/ \E c \in HubClients, symbols \in InstIdArrays :
          HandleClientMessage(c, symbols) /\ UNCHANGED mdsFrame
    \/ \E instId \in MdsInstIds, channel \in MdsChannels :
          ProcessMarketData(instId, channel, <<FeedItem(1)>>) /\ UNCHANGED mdsFrame

SpecMds == Init /\ [][MdsNext]_vars

\* the feed is up, messages of every kind arrive and a client connects
CacheNext ==
    \/ initPhase = "constructed" /\ MdsUpdateTradingPairs(<<>>, <<>>)
                                 /\ UNCHANGED refreshFrame
    \/ InitConnect(FALSE) /\ UNCHANGED feedFrame
    \/ SocketOpen /\ UNCHANGED feedFrame
    \/ \E c \in HubClients : HandleConnection(c) /\ UNCHANGED mdsFrame
    \/ \E instId \in MdsInstIds, channel \in MdsChannels, data \in FeedData :
          ProcessMarketData(instId, channel, data) /\ UNCHANGED mdsFrame

SpecCache == Init /\ [][CacheNext]_vars

\* the tickers the periodic refresh sees: none, and nine '_USDT' tickers of
\* which those of BTC and ETH carry no volume
PeriodicSnapshots == {<<>>, Snapshot(Len(LargeCapNames) - 1, "SPOT", "asc")}

\* the feed is up and delivers messages while the selector refreshes every
\* 30 minutes
PeriodicNext ==
    \/ initPhase = "constructed" /\ MdsUpdateTradingPairs(<<>>, <<>>)
                                 /\ UNCHANGED refreshFrame
    \/ InitConnect(FALSE) /\ UNCHANGED feedFrame
    \/ SocketOpen /\ UNCHANGED feedFrame
    \/ \E snapshot \in PeriodicSnapshots :
          /\ initPhase = "running"
          /\ MdsUpdateTradingPairs(snapshot, <<>>)
          /\ UNCHANGED refreshFrame
    \/ \E instId \in MdsInstIds, channel \in MdsChannels, data \in FeedData :
          ProcessMarketData(instId, channel, data) /\ UNCHANGED mdsFrame

SpecPeriodic == Init /\ [][PeriodicNext]_vars

\* the feed with a running clock: every kind of frame arrives, for tracked
\* instruments and for others
ControlNext ==
    \/ initPhase = "constructed" /\ MdsUpdateTradingPairs(<<>>, <<>>)
                                 /\ UNCHANGED refreshFrame
    \/ InitConnect(FALSE) /\ UNCHANGED feedFrame
    \/ SocketOpen /\ UNCHANGED feedFrame
    \/ Tick(MaxClock \div 3) /\ UNCHANGED tradeFrame
    \/ \E frame \in UpstreamFrames \cup FeedFrames :
          UpstreamMessage(frame) /\ UNCHANGED controlFrame

SpecControl == Init /\ [][ControlNext]_vars

\* the tickers the refreshes of a starting feed see: none, nine '_USDT'
\* tickers of which two carry no volume, and twelve that all carry one
StartupSnapshots == PeriodicSnapshots \cup FeedSnapshots

\* the first updateTradingPairs of initializeBitgetConnection settles
StartupRefresh ==
    \E snapshot \in StartupSnapshots :
        /\ initPhase = "constructed"
        /\ MdsUpdateTradingPairs(snapshot, <<>>)
        /\ UNCHANGED refreshFrame

\* the callback of initializeBitgetConnection runs
StartupConnect == InitConnect(FALSE) /\ UNCHANGED feedFrame

\* startup and the 30-minute refresh, with the socket opening and closing
StartupNext ==
    \/ StartupRefresh
    \/ StartupConnect
    \/ SocketOpen /\ UNCHANGED feedFrame
    \/ SocketClose /\ UNCHANGED feedFrame
    \/ ReconnectTimerFires(FALSE) /\ UNCHANGED feedFrame
    \/ \E snapshot \in StartupSnapshots :
          /\ initPhase = "running"
          /\ MdsUpdateTradingPairs(snapshot, <<>>)
          /\ UNCHANGED refreshFrame

\* the request of the first refresh is answered or fails, and the callbacks
\* of a settled promise run
SpecStartup ==
    Init /\ [][StartupNext]_vars /\ WF_vars(StartupRefresh) /\ WF_vars(StartupConnect)

\* the same with the MarketDataSocket of websockets/marketDataSocket.js
RethrowingStartupRefresh ==
    \E snapshot \in StartupSnapshots :
        /\ initPhase = "constructed"
        /\ RethrowingUpdateTradingPairs(snapshot, <<>>)
        /\ UNCHANGED refreshFrame

\* connect() and the handlers of the socket are those of the model wherever
\* there are active symbols, as there are after a refresh that succeeded
RethrowingStartupNext ==
    \/ RethrowingStartupRefresh
    \/ activeSymbols # {} /\ StartupConnect
    \/ activeSymbols # {} /\ SocketOpen /\ UNCHANGED feedFrame
    \/ activeSymbols # {} /\ SocketClose /\ UNCHANGED feedFrame
    \/ activeSymbols # {} /\ ReconnectTimerFires(FALSE) /\ UNCHANGED feedFrame
    \/ \E snapshot \in StartupSnapshots :
          /\ initPhase = "running"
          /\ RethrowingUpdateTradingPairs(snapshot, <<>>)
          /\ UNCHANGED refreshFrame

SpecRethrowingStartup ==
    /\ Init /\ [][RethrowingStartupNext]_vars
    /\ WF_vars(RethrowingStartupRefresh) /\ WF_vars(activeSymbols # {} /\ StartupConnect)

\* the answers of the exchange a fallback request sees: none, and tickers
\* under either naming
FallbackSnapshots ==
    {<<>>, Snapshot(Len(LargeCapNames) + 2, "SPOT", "desc"),
     Snapshot(Len(LargeCapNames) + 2, "UMCBL", "desc")}

\* the feed is up and delivers messages while clients connect and fallback
\* requests arrive
FallbackNext ==
    \/ initPhase = "constructed" /\ MdsUpdateTradingPairs(<<>>, <<>>)
                                 /\ UNCHANGED refreshFrame
    \/ InitConnect(FALSE) /\ UNCHANGED feedFrame
    \/ SocketOpen /\ UNCHANGED feedFrame
    \/ \E c \in HubClients : HandleConnection(c) /\ UNCHANGED mdsFrame
    \/ \E c \in HubClients :
          HandleClientMessage(c, <<InstId(<<"BTC">>)>>) /\ UNCHANGED mdsFrame
    \/ \E instId \in MdsInstIds, channel \in MdsChannels :
          ProcessMarketData(instId, channel, <<FeedItem(1)>>) /\ UNCHANGED mdsFrame
    \/ GetFallbackMarketData /\ UNCHANGED mdsFrame
    \/ \E snapshot \in FallbackSnapshots, price \in SyntheticPrices :
          FallbackResolves(snapshot, <<>>, price) /\ UNCHANGED fallbackFrame

SpecFallback == Init /\ [][FallbackNext]_vars

\* both kinds of connection with their ping timers: the upstream socket with
\* its superseded sockets (new WebSocket does not throw here), and one
\* downstream client
TimersNext ==
    \/ initPhase = "constructed" /\ MdsUpdateTradingPairs(<<>>, <<>>)
                                 /\ UNCHANGED refreshFrame
    \/ InitConnect(FALSE) /\ UNCHANGED feedFrame
    \/ SocketOpen /\ UNCHANGED feedFrame
    \/ OldSocketOpen /\ UNCHANGED feedFrame
    \/ SocketClose /\ UNCHANGED feedFrame
    \/ OldSocketClose /\ UNCHANGED feedFrame
    \/ \E threw \in BOOLEAN : PingTick(threw) /\ UNCHANGED feedFrame
    \/ ReconnectTimerFires(FALSE) /\ UNCHANGED feedFrame
    \/ WsConnection("c1") /\ UNCHANGED hubFrame
    \/ WsPingTick("c1") /\ UNCHANGED hubFrame
    \/ WsPong("c1") /\ UNCHANGED hubFrame
    \/ WsSocketCloses("c1") /\ UNCHANGED hubFrame
    \/ \E threw \in BOOLEAN : WsClose("c1", threw) /\ UNCHANGED hubFrame

SpecTimers == Init /\ [][TimersNext]_vars

\* the upstream socket opens, delivers frames of every kind, fails and closes
FaultsNext ==
    \/ initPhase = "constructed" /\ MdsUpdateTradingPairs(<<>>, <<>>)
                                 /\ UNCHANGED refreshFrame
    \/ \E threw \in BOOLEAN : InitConnect(threw) /\ UNCHANGED feedFrame
    \/ SocketOpen /\ UNCHANGED feedFrame
    \/ SocketClose /\ UNCHANGED feedFrame
    \/ SocketError /\ UNCHANGED feedFrame
    \/ \E threw \in BOOLEAN : ReconnectTimerFires(threw) /\ UNCHANGED feedFrame
    \/ \E frame \in UpstreamFrames : HandleMessage(frame) /\ UNCHANGED mdsFrame

SpecFaults == Init /\ [][FaultsNext]_vars

\* isUniqueSignal is called with any of the arguments, and returns
InitUnique ==
    /\ InitServices
    /\ uniqueCall \in UniqueCalls
    /\ rankInput = NoRankInput
    /\ clientMessage = NoMessage
    /\ riskCall = NoRiskCall
    /\ subscribeCall = NoSubscribeCall

UniqueNext == IsUniqueSignalReturns /\ UNCHANGED callFrame

SpecUnique == InitUnique /\ [][UniqueNext]_vars

\* the three selectors refresh, against any of the responses
PairsNext ==
    \/ \E snapshot \in Snapshots, marketCapData \in CoinGeckoResponses :
          MdsUpdateTradingPairs(snapshot, marketCapData) /\ UNCHANGED refreshFrame
    \/ \E snapshot \in Snapshots, bitgetCapData, marketCapData \in CoinGeckoResponses :
          TsUpdateTradingPairs(snapshot, bitgetCapData, marketCapData)
              /\ UNCHANGED pairFrame
    \/ CacheExpires /\ UNCHANGED <<pairFrame, pairVars>>
    \/ InitConnect(FALSE) /\ UNCHANGED feedFrame
    \/ SocketOpen /\ UNCHANGED feedFrame

SpecPairs == Init /\ [][PairsNext]_vars

\* tickers for the ranking: none; twelve '_USDT' tickers of which two or
\* all lack a capitalization; more '_UMCBL' tickers than are selected
RankSnapshots ==
    {<<>>,
     CapSnapshot(largeCapCount + 2, "SPOT", {1, 2}),
     CapSnapshot(largeCapCount + 2, "SPOT", 1..(largeCapCount + 2)),
     CapSnapshot(Len(AssetNames), "UMCBL", 1..Len(AssetNames))}

\* the two selectors refresh, and the observer keeps what the refresh had
RankNext ==
    \/ \E snapshot \in RankSnapshots, marketCapData \in CoinGeckoResponses :
          LET marketData ==
                  GetMarketData(snapshot, CacheAfterMarketData(snapshot, marketCapData))
          IN  /\ MdsUpdateTradingPairs(snapshot, marketCapData)
              /\ rankInput' = [by |-> "marketDataSocket", marketData |-> marketData,
                                marketCapData |-> <<>>,
                                assigned |-> MdsUsdtPairs(marketData) # <<>>,
                                previous |-> activeSymbols]
              /\ UNCHANGED refreshCore
    \/ \E snapshot \in RankSnapshots, bitgetCapData, marketCapData \in CoinGeckoResponses :
          /\ TsUpdateTradingPairs(snapshot, bitgetCapData, marketCapData)
          /\ rankInput' =
                 [by |-> "tradingService",
                  marketData |-> GetMarketData(snapshot,
                                     CacheAfterMarketData(snapshot, bitgetCapData)),
                  marketCapData |-> marketCapData, assigned |-> TRUE,
                  previous |-> Range(tradingPairs)]
          /\ UNCHANGED pairCore
    \/ CacheExpires /\ UNCHANGED <<pairFrame, pairVars>>
    \/ InitConnect(FALSE) /\ UNCHANGED feedFrame
    \/ SocketOpen /\ UNCHANGED feedFrame

SpecRank == Init /\ [][RankNext]_vars

\* the ticker lists the trading service's refreshes and price lookups see
TradeSnapshots == {<<>>, Snapshot(largeCapRankLimit + 3, "UMCBL", "desc")}

\* the signal pipeline under a running clock, auto-trading off
SignalsNext ==
    \/ \E snapshot \in TradeSnapshots :
          TsUpdateTradingPairs(snapshot, <<>>, <<>>) /\ UNCHANGED pairFrame
    \/ \E d \in {MaxClock} : Tick(d) /\ UNCHANGED tradeFrame
    \/ \E timeframe \in Timeframes, predictions \in PredictionBatches :
          GetTradeSignals(timeframe, predictions) /\ UNCHANGED tradeFrame

SpecSignals == Init /\ [][SignalsNext]_vars

\* the symbols, sides and quantities of manual trades
ManualSymbols == {Sym("BTC"), Sym("INJ"), Sym("TRX")}

\* signals, automatic trades, and the refreshes of both symbol lists
TradeNext ==
    \/ \E snapshot \in TradeSnapshots, bitgetCapData \in CoinGeckoResponses :
          TsUpdateTradingPairs(snapshot, bitgetCapData, <<>>) /\ UNCHANGED pairFrame
    \/ CacheExpires /\ UNCHANGED <<pairFrame, pairVars>>
    \/ \E enabled \in BOOLEAN : ToggleAutoTrading(enabled) /\ UNCHANGED tradeFrame
    \/ \E predictions \in PredictionBatches :
          GetTradeSignals("15m", predictions) /\ UNCHANGED tradeFrame
    \/ \E b \in BatchIds, ok \in BOOLEAN, availableBalance \in Balances :
          BalanceResolves(b, ok, <<Account("USDT", availableBalance)>>)
          /\ UNCHANGED tradeFrame
    \/ \E tid \in AutoTradeIds, snapshot \in TradeSnapshots, marketCapData \in CoinGeckoResponses :
          PriceResolves(tid, snapshot, marketCapData) /\ UNCHANGED tradeFrame
    \/ \E tid \in AutoTradeIds, ok \in BOOLEAN : PostResolves(tid, ok) /\ UNCHANGED tradeFrame
    \/ \E tid \in AutoTradeIds : StopsResolve(tid, TRUE) /\ UNCHANGED tradeFrame

SpecTrade == Init /\ [][TradeNext]_vars

\* automatic trades under a running clock: between two awaits of a run more
\* time than a signal lives may pass
ExpiryNext ==
    \/ \E snapshot \in TradeSnapshots :
          TsUpdateTradingPairs(snapshot, <<>>, <<>>) /\ UNCHANGED pairFrame
    \/ ToggleAutoTrading(TRUE) /\ UNCHANGED tradeFrame
    \/ Tick(MaxClock \div 3) /\ UNCHANGED tradeFrame
    \/ GetTradeSignals("15m", FewPredictions) /\ UNCHANGED tradeFrame
    \/ \E b \in BatchIds, ok \in BOOLEAN :
          BalanceResolves(b, ok, <<Account("USDT", 1000)>>) /\ UNCHANGED tradeFrame
    \/ \E tid \in AutoTradeIds, snapshot \in TradeSnapshots :
          PriceResolves(tid, snapshot, <<>>) /\ UNCHANGED tradeFrame
    \/ \E tid \in AutoTradeIds, ok \in BOOLEAN : PostResolves(tid, ok) /\ UNCHANGED tradeFrame
    \/ \E tid \in AutoTradeIds : StopsResolve(tid, TRUE) /\ UNCHANGED tradeFrame

SpecExpiry == Init /\ [][ExpiryNext]_vars

\* the arrays getAccountBalance answers with: no account, none in USDT, a
\* USDT account with nothing, with a debt, and with funds
AccountInfos ==
    {<<>>, <<Account("BTC", 5)>>, <<Account("USDT", 0)>>, <<Account("USDT", -5)>>,
     <<Account("BTC", 5), Account("USDT", 1000)>>}

\* automatic trades against every answer of the account
BalanceNext ==
    \/ \E snapshot \in TradeSnapshots :
          TsUpdateTradingPairs(snapshot, <<>>, <<>>) /\ UNCHANGED pairFrame
    \/ \E enabled \in BOOLEAN : ToggleAutoTrading(enabled) /\ UNCHANGED tradeFrame
    \/ \E predictions \in PredictionBatches :
          GetTradeSignals("15m", predictions) /\ UNCHANGED tradeFrame
    \/ \E b \in BatchIds, ok \in BOOLEAN, accountInfo \in AccountInfos :
          BalanceResolves(b, ok, accountInfo) /\ UNCHANGED tradeFrame
    \/ \E tid \in AutoTradeIds, snapshot \in TradeSnapshots :
          PriceResolves(tid, snapshot, <<>>) /\ UNCHANGED tradeFrame
    \/ \E tid \in AutoTradeIds, ok \in BOOLEAN : PostResolves(tid, ok) /\ UNCHANGED tradeFrame
    \/ \E tid \in AutoTradeIds : StopsResolve(tid, TRUE) /\ UNCHANGED tradeFrame

SpecBalance == Init /\ [][BalanceNext]_vars

\* the balance of the account before any order
Funds == 1000

\* the sizes of the orders of a run the exchange has accepted, in thousandths:
\* those of the trades that returned and that of the trade whose stop orders
\* are being placed
RECURSIVE ReturnedSize(_, _)
ReturnedSize(attempted, k) ==
    IF k = 0 THEN 0
    ELSE ReturnedSize(attempted, k - 1)
         + (IF attempted[k].outcome = "returned" THEN attempted[k].size ELSE 0)

AcceptedSize(b) ==
    ReturnedSize(batches[b].attempted, Len(batches[b].attempted))
    + (IF trades[<<"auto", b>>].phase = "stops" THEN trades[<<"auto", b>>].quantity ELSE 0)

RECURSIVE AcceptedBy(_, _)
AcceptedBy(runs, b) ==
    IF b = 0 THEN 0
    ELSE AcceptedBy(runs, b - 1) + (IF b \in runs THEN AcceptedSize(b) ELSE 0)

\* what the account has available: its funds less the orders accepted
Available == Funds - (AcceptedBy(BatchIds, MaxBatches) \div 1000)

\* requests for signals overlap: a second run of executeAutoTrades starts
\* while the first awaits the account, a price or an order, or after it; no
\* more than MaxBatches requests are made
OverlapNext ==
    \/ \E snapshot \in TradeSnapshots :
          TsUpdateTradingPairs(snapshot, <<>>, <<>>) /\ UNCHANGED pairFrame
    \/ ToggleAutoTrading(TRUE) /\ UNCHANGED tradeFrame
    \/ /\ \E b \in BatchIds : batches[b].phase = "idle"
       /\ GetTradeSignalsIn({b \in BatchIds : batches[b].phase = "idle"}, "15m", FewPredictions)
       /\ UNCHANGED tradeFrame
    \/ \E b \in BatchIds :
          BalanceResolves(b, TRUE, <<Account("USDT", Available)>>) /\ UNCHANGED tradeFrame
    \/ \E tid \in AutoTradeIds, snapshot \in TradeSnapshots :
          PriceResolves(tid, snapshot, <<>>) /\ UNCHANGED tradeFrame
    \/ \E tid \in AutoTradeIds, ok \in BOOLEAN : PostResolves(tid, ok) /\ UNCHANGED tradeFrame
    \/ \E tid \in AutoTradeIds : StopsResolve(tid, TRUE) /\ UNCHANGED tradeFrame

SpecOverlap == Init /\ [][OverlapNext]_vars

\* automatic trades whose stop orders are placed or fail
StopOrdersNext ==
    \/ \E snapshot \in TradeSnapshots :
          TsUpdateTradingPairs(snapshot, <<>>, <<>>) /\ UNCHANGED pairFrame
    \/ ToggleAutoTrading(TRUE) /\ UNCHANGED tradeFrame
    \/ \E predictions \in PredictionBatches :
          GetTradeSignals("15m", predictions) /\ UNCHANGED tradeFrame
    \/ \E b \in BatchIds :
          BalanceResolves(b, TRUE, <<Account("USDT", Funds)>>) /\ UNCHANGED tradeFrame
    \/ \E tid \in AutoTradeIds, snapshot \in TradeSnapshots :
          PriceResolves(tid, snapshot, <<>>) /\ UNCHANGED tradeFrame
    \/ \E tid \in AutoTradeIds, ok \in BOOLEAN : PostResolves(tid, ok) /\ UNCHANGED tradeFrame
    \/ \E tid \in AutoTradeIds, ok \in BOOLEAN :
          StopsResolve(tid, ok) /\ UNCHANGED tradeFrame

SpecStopOrders == Init /\ [][StopOrdersNext]_vars

\* manual trades and the refreshes of both symbol lists
ManualNext ==
    \/ \E snapshot \in TradeSnapshots, bitgetCapData \in CoinGeckoResponses :
          TsUpdateTradingPairs(snapshot, bitgetCapData, <<>>) /\ UNCHANGED pairFrame
    \/ CacheExpires /\ UNCHANGED <<pairFrame, pairVars>>
    \/ \E m \in 1..MaxManualTrades, symbol \in ManualSymbols, withPrice \in BOOLEAN :
          ManualExecuteTrade(m, symbol, "buy", 1, withPrice) /\ UNCHANGED tradeFrame
    \/ \E tid \in ManualTradeIds, snapshot \in TradeSnapshots,
          marketCapData \in CoinGeckoResponses :
          PriceResolves(tid, snapshot, marketCapData) /\ UNCHANGED tradeFrame
    \/ \E tid \in ManualTradeIds, snapshot \in TradeSnapshots,
          marketCapData \in CoinGeckoResponses :
          ApproveResolves(tid, snapshot, marketCapData) /\ UNCHANGED tradeFrame
    \/ \E tid \in ManualTradeIds, ok \in BOOLEAN :
          PostResolves(tid, ok) /\ UNCHANGED tradeFrame
    \/ \E tid \in ManualTradeIds : StopsResolve(tid, TRUE) /\ UNCHANGED tradeFrame

SpecManual == Init /\ [][ManualNext]_vars

-----------------------------------------------------------------------------
(* Properties of the upstream connection (SpecFeed) *)

\* C2: the k-th reconnect of a run of k failed connections without an 'open'
\* in between is scheduled with the delay 3000 * 1.5^(k-1) ms, for k up to
\* maxReconnectAttempts.
C2_BackoffGrows ==
    reconnectsSinceOpen \in 1..maxReconnectAttempts
        => lastReconnectDelay = ReconnectDelayFor(reconnectsSinceOpen)

\* C3: while the upstream socket never opens, at most maxReconnectAttempts
\* reconnects are scheduled: the run of reconnects without an 'open' never
\* grows beyond maxReconnectAttempts.
C3_ReconnectsBounded == reconnectsSinceOpen <= maxReconnectAttempts

-----------------------------------------------------------------------------
(* Properties of the client hubs (SpecHub, SpecMds) *)

\* C8: an unsubscribe message of a client that names only symbols this
\* connection never subscribed changes no subscription set, sends no error
\* and issues no upstream unsubscribe.
C8_UnsubscribeUnknownIsNoOp ==
    [][\A c \in HubClients, symbols \in SymbolArrays, threw \in BOOLEAN :
          (/\ WsUnsubscribeMessage(c, symbols, threw)
           /\ symbols # <<>>
           /\ Range(symbols) \cap everSubscribed[c] = {})
          => /\ subscriptions' = subscriptions
             /\ "error" \notin wsSent'.types
             /\ upstreamCall'.op # "unsubscribe"]_vars

\* C9: whenever a step issues an upstream unsubscribe (explicit unsubscribe,
\* unsubscribe-all or disconnect), no registered client holds any of the
\* symbols it names.
C9_UnsubscribeOnlyUnheld ==
    upstreamCall.op = "unsubscribe"
        => \A sym \in upstreamCall.symbols :
              \A c \in wsClients : sym \notin subscriptions[c]

\* C9, its case: an explicit unsubscribe was acknowledged and went upstream
\* while another registered client still holds a symbol.
C9_Witness ==
    /\ upstreamCall.op = "unsubscribe"
    /\ "unsubscribed" \in wsSent.types
    /\ \E c \in wsClients : c # wsSent.client /\ subscriptions[c] # {}

\* C10: a market-data event for a symbol is pushed to exactly the registered
\* clients with an open socket whose subscriptions hold the symbol, by the
\* hub of wsServer.js and by the hub of MarketDataSocket alike.
C10_PushedIffSubscribed ==
    /\ pushed.via = "wsServer"
           => pushed.recipients = {c \in wsClients : /\ wsConn[c] = "OPEN"
                                                    /\ pushed.symbol \in subscriptions[c]}
    /\ pushed.via = "marketDataSocket"
           => pushed.recipients = {c \in clients : /\ clientState[c] = "OPEN"
                                                  /\ pushed.symbol \in clientRequested[c]}

\* C31: a subscribe request goes upstream only for symbols no other registered
\* client subscribes to: a second client subscribing to a symbol another holds
\* causes no further upstream subscribe.
C31_SubscribeOnlyUnheld ==
    upstreamCall.op = "subscribe"
        => \A sym \in upstreamCall.symbols :
              \A other \in wsClients \ {wsSent.client} : sym \notin subscriptions[other]

\* C37: when the upstream subscribe call fails while a subscribe request is
\* handled, the client is sent an error and no 'subscribed', and its
\* subscription set is what it was before the request.
C37_FailedSubscribeRollsBack ==
    [][\A c \in HubClients, symbols \in SymbolArrays :
          (WsSubscribeMessage(c, symbols, TRUE) /\ upstreamCall'.op = "subscribe")
          => /\ "error" \in wsSent'.types
             /\ "subscribed" \notin wsSent'.types
             /\ subscriptions'[c] = subscriptions[c]]_vars

\* C37, the answer alone: an error and no 'subscribed'
C37_FailedSubscribeAnswersError ==
    [][\A c \in HubClients, symbols \in SymbolArrays :
          (WsSubscribeMessage(c, symbols, TRUE) /\ upstreamCall'.op = "subscribe")
          => /\ "error" \in wsSent'.types
             /\ "subscribed" \notin wsSent'.types]_vars

\* the step of a failed keepalive ping: the client stops being connected while
\* no socket changes its state
PingFailed ==
    /\ isConnected /\ ~isConnected'
    /\ wsState' = wsState /\ oldSockets' = oldSockets

\* C17: when the keepalive ping cannot be sent the client does what it does
\* on a close event: it is no longer connected, the ping timer is cancelled,
\* 'disconnected' is emitted and a reconnect is scheduled, so that afterwards
\* a timer that will call connect() is pending.
C17_PingFailureReconnects ==
    [][PingFailed =>
          /\ ~pingInterval'
          /\ pingTimers' = pingTimers - 1
          /\ "disconnected" \in emitted'
          /\ reconnectTimers' # <<>>
      ]_vars

\* every channel for every active symbol, as subscribedChannels records them
AllFeedSubscriptions(symbols) ==
    {<<FeedChannels[c], InstId(sym)>> : c \in 1..Len(FeedChannels), sym \in symbols}

\* the 'open' event of the socket this.ws refers to
CurrentSocketOpens == wsState = "CONNECTING" /\ wsState' = "OPEN"

\* the 'open' event of a socket that connect() has replaced since
SupersededSocketOpens ==
    /\ oldSockets'.CONNECTING = oldSockets.CONNECTING - 1
    /\ oldSockets'.OPEN = oldSockets.OPEN + 1

\* C18: whenever an upstream connection opens, a subscription is requested
\* for every channel of ticker, candle15m, depth5 and every symbol of the
\* ActiveSymbolSet, and the recorded set of subscribed channels (filled as
\* the requests are made) is exactly that product, which is not empty.
C18_OpenSubscribesAll ==
    [][(CurrentSocketOpens \/ SupersededSocketOpens) =>
          /\ activeSymbols' # {}
          /\ subscribedChannels' = AllFeedSubscriptions(activeSymbols')
      ]_vars

\* C18 for the opening of the socket this.ws refers to
C18_CurrentSocketSubscribesAll ==
    [][CurrentSocketOpens =>
          /\ activeSymbols' # {}
          /\ subscribedChannels' = AllFeedSubscriptions(activeSymbols')
      ]_vars

\* C26: when the upstream socket this.ws refers to opens, reconnectAttempts is
\* 0, so that the reconnect a later close schedules has the base delay.
C26_OpenResetsAttempts ==
    [][CurrentSocketOpens => reconnectAttempts' = 0]_vars

\* the upstream sockets that are connecting or open
AliveSockets == (IF wsState \in {"CONNECTING", "OPEN"} THEN 1 ELSE 0) + OldAlive

\* C27: under every interleaving of open, close, error, ping-failure and
\* reconnect-timer events the feed client has at most one upstream socket that
\* is connecting or open, and at most one reconnect timer pending.
C27_OneConnectionOneTimer ==
    /\ AliveSockets <= 1
    /\ Len(reconnectTimers) <= 1

\* C27 without the count of timers
C27_OneConnection == AliveSockets <= 1

\* the 'close' event of a socket that connect() has replaced since
SupersededSocketCloses ==
    /\ oldSockets'.CONNECTING + oldSockets'.OPEN = OldAlive - 1
    /\ wsState' = wsState

\* C27, last part: the late 'close' event of a superseded socket does not mark
\* the open connection as disconnected
C27_LateCloseKeepsConnected ==
    [][(SupersededSocketCloses /\ wsState = "OPEN" /\ isConnected) => isConnected']_vars

\* a downstream connection that has ended: its 'close' event has been handled,
\* or the ping timeout has terminated it
Ended(c) == wsConn[c] = "none" \/ (wsConn[c] = "CLOSING" /\ c \notin wsClients)

\* C30: no ping timer runs for a connection that has ended (upstream: no
\* socket is connecting or open; downstream: the client has disconnected or
\* was terminated), and at most one upstream ping timer runs at any time.
C30_NoOrphanedPingTimer ==
    /\ pingTimers <= 1
    /\ AliveSockets = 0 => pingTimers = 0
    /\ \A c \in HubClients : Ended(c) => c \notin wsPingTimers

\* an upstream socket opened and was closed, and a downstream client was
\* terminated by the ping timeout; no ping timer is left
C30_Witness ==
    /\ wsState = "CLOSED" /\ OldAlive = 0
    /\ "connected" \in emitted /\ "disconnected" \in emitted
    /\ wsConn["c1"] = "CLOSING" /\ "c1" \notin wsClients
    /\ pingTimers = 0 /\ wsPingTimers = {}

\* C16: a subscribe request adds a symbol to the client's subscription set
\* only if the symbol is in the current ActiveSymbolSet and ends with USDT; a
\* symbol that fails the suffix check is answered with an error and not
\* added, while the valid symbols of the request are added. Requests that
\* arrive before the selector's first refresh are left out of the statement.
C16_SubscribesOnlyActiveSymbols ==
    [][\A c \in HubClients :
          LET added == subscriptions'[c] \ subscriptions[c]
          IN  /\ \A sym \in added :
                    /\ EndsWith(sym, <<"USDT">>)
                    /\ activeSymbols # {} => RemoveFirst(sym, <<"USDT">>) \in activeSymbols
              /\ (added # {} /\ wsConn[c] = "OPEN")
                    => wsSent'.client = c /\ wsSent'.types \cap {"subscribed", "error"} # {}
      ]_vars

\* the symbols connection c still holds that no other registered client holds
OwedUnsubscribe(c) ==
    {sym \in subscriptions[c] :
        ~\E other \in wsClients \ {c} : sym \in subscriptions[other]}

\* C15: a client that a ping tick finds without a pong is terminated and
\* leaves the registry, and by the time its connection has ended the symbols
\* only it held have been unsubscribed upstream, as at a normal disconnect:
\* the step that ends a connection makes the upstream call for whatever the
\* connection still holds alone.
C15_TimeoutUnsubscribes ==
    [][\A c \in HubClients :
          /\ (c \in wsClients /\ c \notin wsClients' /\ wsConn[c] = "OPEN")
                 => wsConn'[c] = "CLOSING"
          /\ (wsConn[c] = "CLOSING" /\ wsConn'[c] = "none" /\ OwedUnsubscribe(c) # {})
                 => upstreamCall' = [op |-> "unsubscribe", symbols |-> OwedUnsubscribe(c)]
      ]_vars

-----------------------------------------------------------------------------
(* Properties of the pair selection (SpecPairs) *)

NoDuplicates(s) == \A i, j \in 1..Len(s) : s[i] = s[j] => i = j

\* C4: after every refresh, whatever its outcome, each selector holds at most
\* 40 symbols, at most 10 large-cap and at most 30 mid-cap ones, and no symbol
\* is in both lists.
C4_SelectionsBounded ==
    /\ Cardinality(activeSymbols) <= 40
    /\ Len(selectedPairs.largeCapPairs) <= 10
    /\ Len(selectedPairs.midCapPairs) <= 30
    /\ Range(selectedPairs.largeCapPairs) \cap Range(selectedPairs.midCapPairs) = {}
    /\ Len(tradingPairs) <= 40
    /\ NoDuplicates(tradingPairs)
    /\ Len(largecapPairs) <= 10
    /\ Len(midcapPairs) <= 30
    /\ Range(largecapPairs) \cap Range(midcapPairs) = {}
    /\ Len(filteredPairsCache.filteredSymbols) <= 40
    /\ Len(filteredPairsCache.largeCapPairs) <= 10
    /\ Len(filteredPairsCache.midCapPairs) <= 30
    /\ Range(filteredPairsCache.largeCapPairs) \cap Range(filteredPairsCache.midCapPairs) = {}

\* C4, its case: refreshes against more than 40 tickers have filled all three
\* selections to their limits.
C4_Witness ==
    /\ Len(largecapPairs) = 10
    /\ Len(midcapPairs) = 30
    /\ Len(filteredPairsCache.largeCapPairs) = 10
    /\ Len(filteredPairsCache.midCapPairs) = 30
    /\ Cardinality(activeSymbols) = 40
    /\ selectedPairs # FallbackPairs

\* the instruments a refresh of the feed client ranks, each with the
\* capitalization its ticker carries or, without one, its volume in USDT
\* (volume24h * last when the ticker has no usdtVolume)
MdsRanked(marketData) ==
    LET named == SelectSeq(marketData,
                     LAMBDA t : SplitFirst(t.symbol) # <<>>
                                /\ EndsWith(t.symbol, <<"_", "USDT">>)
                                /\ (t.usdtVolume > 0 \/ (t.usdtVolume < 0 /\ t.volume24h > 0)))
    IN  [i \in 1..Len(named) |->
            [symbol |-> SplitFirst(named[i].symbol),
             cap |-> IF named[i].marketCap # 0 THEN named[i].marketCap
                     ELSE IF named[i].usdtVolume > 0 THEN named[i].usdtVolume
                     ELSE named[i].volume24h * named[i].last]]

\* the instruments a refresh of the trading service ranks, each with the
\* capitalization of the coin of its name or, without one, volume24h * last
TsRanked(marketData, marketCapData) ==
    LET pairs == EnrichWithMarketCapData(TsUsdtPairs(marketData), marketCapData)
    IN  [i \in 1..Len(pairs) |-> [symbol |-> pairs[i].symbol, cap |-> pairs[i].marketCap]]

\* large and mid are the first K and the next M of ranked in an order of
\* descending capitalization
IsTopSelection(ranked, large, mid, K, M) ==
    LET chosen == large \o mid
        capOf(symbol) == ranked[CHOOSE i \in 1..Len(ranked) : ranked[i].symbol = symbol].cap
        symbols == {ranked[i].symbol : i \in 1..Len(ranked)}
    IN  /\ Len(large) = Min(K, Len(ranked))
        /\ Len(mid) = Min(M, Len(ranked) - Len(large))
        /\ Range(chosen) \subseteq symbols
        /\ NoDuplicates(chosen)
        /\ \A p, q \in 1..Len(chosen) : p < q => capOf(chosen[p]) >= capOf(chosen[q])
        /\ \A a \in Range(chosen), b \in symbols \ Range(chosen) : capOf(a) >= capOf(b)

\* C13: a refresh that assigns its lists ranks the instruments by descending
\* capitalization, an instrument without one by its volume-based estimate,
\* makes the first K the large-cap list and the next M the mid-cap list, and
\* leaves out the rest.
C13_RankedByCapitalization ==
    /\ rankInput.by = "marketDataSocket" /\ rankInput.assigned =>
           IsTopSelection(MdsRanked(rankInput.marketData), selectedPairs.largeCapPairs,
                          selectedPairs.midCapPairs, largeCapCount, midCapCount)
    /\ rankInput.by = "tradingService" =>
           IsTopSelection(TsRanked(rankInput.marketData, rankInput.marketCapData),
                          largecapPairs, midcapPairs, maxLargecapPairs, maxMidcapPairs)

\* the trading service's half of C13
C13_TradingServiceRanked ==
    rankInput.by = "tradingService" =>
        IsTopSelection(TsRanked(rankInput.marketData, rankInput.marketCapData),
                       largecapPairs, midcapPairs, maxLargecapPairs, maxMidcapPairs)

\* the set a selector holds after a refresh that got no usable ticker: its
\* previous symbols if it had any, and else a fallback list that is not empty
KeptOrFallback(symbols, previous) ==
    IF previous # {} THEN symbols = previous ELSE symbols # {}

\* C14: a refresh whose snapshot is empty, has no usable ticker, or whose
\* source failed leaves the selector with its previous symbols, or with the
\* static fallback list if it had none; after a refresh no selector's set is
\* empty.
C14_RefreshNeverEmpties ==
    /\ rankInput.by = "marketDataSocket" =>
           /\ activeSymbols # {}
           /\ ~rankInput.assigned =>
                  /\ KeptOrFallback(activeSymbols, rankInput.previous)
                  /\ rankInput.previous = {} => activeSymbols = UseFallbackSymbols
    /\ rankInput.by = "tradingService" =>
           /\ tradingPairs # <<>>
           /\ TsUsdtPairs(rankInput.marketData) = <<>> =>
                  KeptOrFallback(Range(tradingPairs), rankInput.previous)

\* the feed client's half of C14
C14_FeedClientKeepsSymbols ==
    rankInput.by = "marketDataSocket" =>
        /\ activeSymbols # {}
        /\ ~rankInput.assigned =>
               /\ KeptOrFallback(activeSymbols, rankInput.previous)
               /\ rankInput.previous = {} => activeSymbols = UseFallbackSymbols

\* a failed refresh of the feed client after one that selected from tickers
C14_FeedClientKept ==
    /\ rankInput.by = "marketDataSocket" /\ ~rankInput.assigned
    /\ rankInput.previous # {} /\ rankInput.previous # UseFallbackSymbols

-----------------------------------------------------------------------------
(* Properties of the signals and the trades (SpecSignals, SpecTrade, SpecManual) *)

\* C1: a pass of filterSignals accepts a key (symbol, direction, timeframe)
\* again only when the window of its timeframe has passed since the key was
\* last accepted.
C1_OneSignalPerWindow ==
    \A k \in DOMAIN acceptedAgain : acceptedAgain[k] >= timeWindows(k[3]) * 60

\* the signals of a response that have a direction, a confidence of at least
\* the threshold and a symbol of the active set
Qualifies(signal) ==
    /\ signal.side # ""
    /\ signal.confidence >= minSignalConfidence
    /\ signal.symbol \in Range(tradingPairs)

\* the place in the response of the first qualifying signal with the symbol
\* and direction of s; 0 when there is none
FirstPlace(rawSignals, s) ==
    LET places == {i \in 1..Len(rawSignals) :
                      /\ Qualifies(rawSignals[i])
                      /\ rawSignals[i].symbol = s.symbol
                      /\ rawSignals[i].side = s.side}
    IN  IF places = {} THEN 0 ELSE CHOOSE i \in places : \A j \in places : i <= j

\* C33: filterSignals returns, in the order of the input, exactly the first
\* signal of each (symbol, direction) among the input signals that have at
\* least the minimum confidence and a symbol of the active set: no two returned
\* signals share (symbol, direction), and each expires 20 s after the time it
\* carries.
C33_FilterKeepsFirstPerKey ==
    \A timeframe \in Timeframes, rawSignals \in PredictionBatches :
        LET returned == FilterSignals(rawSignals, timeframe)
        IN  /\ \A k \in 1..Len(returned) :
                  LET i == FirstPlace(rawSignals, returned[k])
                  IN  /\ i # 0
                      /\ returned[k].confidence = rawSignals[i].confidence
                      /\ returned[k].timeframe = timeframe
                      /\ returned[k].timestamp = now
                      /\ returned[k].expiresAt = returned[k].timestamp + signalTtl
            /\ \A k, l \in 1..Len(returned) :
                  /\ k < l => FirstPlace(rawSignals, returned[k])
                                  < FirstPlace(rawSignals, returned[l])
                  /\ (/\ returned[k].symbol = returned[l].symbol
                      /\ returned[k].side = returned[l].side) => k = l
            /\ \A i \in 1..Len(rawSignals) :
                  Qualifies(rawSignals[i])
                  => \E k \in 1..Len(returned) :
                        /\ returned[k].symbol = rawSignals[i].symbol
                        /\ returned[k].side = rawSignals[i].side

\* C33, its case: a pass over a response with a repeated (symbol, direction)
\* has kept the first of the two, and the clock has run since
C33_Witness ==
    /\ <<Sym("BTC"), "buy", "15m">> \in DOMAIN activeSignals
    /\ activeSignals[<<Sym("BTC"), "buy", "15m">>].confidence = 80
    /\ <<Sym("ETH"), "sell", "15m">> \in DOMAIN activeSignals
    /\ now > 0

\* C34: the subscribe messages sent on an open socket for one channel and a
\* list of n symbols carry at most 10 arguments each, all of that channel, are
\* ceil(n/10) in number, and together name every symbol of the list exactly once
\* and nothing else.
C34_BatchesOfTen ==
    (subscribeCall.phase = "returned" /\ subscribeCall.readyState = "OPEN")
    => LET messages == subscribeCall.messages
           symbols == subscribeCall.symbols
           places == {<<m, j>> \in (1..Len(messages)) \X (1..10) :
                         j <= Len(messages[m].args)}
       IN  /\ Len(messages) = (Len(symbols) + 9) \div 10
           /\ \A m \in 1..Len(messages) :
                 /\ messages[m].op = "subscribe"
                 /\ Len(messages[m].args) <= 10
                 /\ \A j \in 1..Len(messages[m].args) :
                       /\ messages[m].args[j].channel = subscribeCall.channel
                       /\ \E k \in 1..Len(symbols) :
                             messages[m].args[j].instId = InstId(symbols[k])
           /\ \A k \in 1..Len(symbols) :
                 Cardinality({pl \in places :
                                 messages[pl[1]].args[pl[2]].instId = InstId(symbols[k])}) = 1

\* C34, its case: a list of 25 symbols went out in three messages, the last
\* one of five
C34_Witness ==
    /\ subscribeCall.phase = "returned"
    /\ subscribeCall.readyState = "OPEN"
    /\ Len(subscribeCall.symbols) = 25
    /\ Len(subscribeCall.messages) = 3
    /\ Len(subscribeCall.messages[3].args) = 5

\* the (instrument, channel) entries of the cache
CacheEntries ==
    {key \in (DOMAIN cachedMarketData) \X MdsChannels : key[2] \in DOMAIN cachedMarketData[key[1]]}

\* C35: every key of the cache names an instrument of the current active
\* symbols, so the cache has at most one entry per active symbol and channel,
\* also after a refresh that removed symbols.
C35_CacheWithinActiveSymbols ==
    /\ \A instId \in DOMAIN cachedMarketData : SplitFirst(instId) \in activeSymbols
    /\ Cardinality(CacheEntries) <= Cardinality(activeSymbols) * Cardinality(MdsChannels)

\* C36: at startup connect is invoked whether the first refresh succeeds or
\* fails.
C36_ConnectAfterAnyRefresh == <>(initPhase = "running")

\* C36: a 30-minute refresh that fails leaves the connection and the
\* subscriptions sent upstream as they are.
C36_FailedRefreshChangesNothing ==
    [][(/\ initPhase = "running"
        /\ \/ MdsUpdateTradingPairs(<<>>, <<>>)
           \/ RethrowingUpdateTradingPairs(<<>>, <<>>))
       => UNCHANGED <<wsState, oldSockets, isConnected, pingInterval, pingTimers,
                      reconnectTimers, subscribedChannels>>]_vars

\* C32: after every pass of updateActiveSignals the registry holds no entry
\* whose expiry precedes the time of the pass and at most one entry per
\* (symbol, direction, timeframe); every signal of the pass is in the registry
\* under its key, in place of what the key held before.
C32_RegistryAfterPass ==
    [][\A timeframe \in Timeframes, predictions \in PredictionBatches :
          GetTradeSignals(timeframe, predictions)
          => LET signals == FilterSignals(predictions, timeframe)
             IN  /\ \A k \in DOMAIN activeSignals' : ~(activeSignals'[k].expiresAt < now)
                 /\ \A k1, k2 \in DOMAIN activeSignals' :
                       (/\ activeSignals'[k1].symbol = activeSignals'[k2].symbol
                        /\ activeSignals'[k1].side = activeSignals'[k2].side
                        /\ activeSignals'[k1].timeframe = activeSignals'[k2].timeframe)
                       => k1 = k2
                 /\ \A i \in 1..Len(signals) :
                       /\ SignalKey(signals[i], timeframe) \in DOMAIN activeSignals'
                       /\ activeSignals'[SignalKey(signals[i], timeframe)] = signals[i]]_vars

\* C32, its case: a pass has evicted the expired entry of a key accepted
\* earlier and has inserted the signals of other keys
C32_Witness ==
    /\ DOMAIN activeSignals # {}
    /\ \E k \in SignalKeys : acceptedAt[k] # -1 /\ k \notin DOMAIN activeSignals
    /\ \A k \in DOMAIN activeSignals : acceptedAt[k] = now

\* the spec's order of two signals: large-cap before mid-cap, then the higher
\* confidence first
NotAfter(a, s) ==
    \/ a.pairType = "large-cap" /\ s.pairType # "large-cap"
    \/ /\ (a.pairType = "large-cap") = (s.pairType = "large-cap")
       /\ a.confidence >= s.confidence

SignalOf(r, attempt) ==
    CHOOSE s \in Range(r.signals) : s.symbol = attempt.symbol /\ s.side = attempt.side

\* C5: a run of executeAutoTrades over n signals with a balance B > 0 attempts
\* exactly min(n, 5) trades, each of size 0.9 B / min(n, 5), for the first
\* min(n, 5) signals in the order large-cap before mid-cap, then descending
\* confidence; when no attempt fails, each of them places its order.
C5_TopFiveEqualShares ==
    \A b \in BatchIds :
        LET r == batches[b]
            n == Len(r.signals)
            m == IF n <= 5 THEN n ELSE 5
        IN  (r.phase = "done" /\ r.result = "returned") =>
                /\ r.balance > 0
                /\ Len(r.attempted) = m
                /\ \A k \in 1..m :
                      /\ r.attempted[k].size * m = 900 * r.balance
                      /\ \E s \in Range(r.signals) :
                            s.symbol = r.attempted[k].symbol /\ s.side = r.attempted[k].side
                      /\ \A j \in 1..m :
                            j # k => \/ r.attempted[j].symbol # r.attempted[k].symbol
                                     \/ r.attempted[j].side # r.attempted[k].side
                      /\ \A s \in Range(r.signals) :
                            (\A j \in 1..k : SignalOf(r, r.attempted[j]) # s)
                                => NotAfter(SignalOf(r, r.attempted[k]), s)
                      /\ r.threw = 0 => r.attempted[k].outcome = "returned"

\* C5, its case: B = 1000 and n = 7 have given 5 trades of 180 each, all placed.
C5_Witness ==
    \E b \in BatchIds :
        /\ batches[b].phase = "done"
        /\ batches[b].result = "returned"
        /\ batches[b].balance = 1000
        /\ Len(batches[b].signals) = 7
        /\ Len(batches[b].attempted) = 5
        /\ \A k \in 1..5 : /\ batches[b].attempted[k].size = 180 * 1000
                            /\ batches[b].attempted[k].outcome = "returned"

\* C19: no order is sent for a signal after its expiry, 20 s after it was
\* accepted, also not for a signal that waited for its turn in a run of
\* executeAutoTrades. (The registry of active signals is read by nothing but
\* updateActiveSignals, so it offers no signal, expired or not.)
C19_NoOrderAfterExpiry ==
    \A b \in BatchIds :
        (orderSent.kind = "order" /\ trades[<<"auto", b>>].phase = "post")
            => now <= batches[b].prioritized[batches[b].i].expiresAt

\* C20: a failure of the upstream socket (an 'error' event, a close, a frame
\* that does not parse) never ends the process: no uncaught exception
\* schedules process.exit.
C20_TransientNeverFatal == ~ExitScheduled

\* a message of an unknown type, or a subscribe or unsubscribe whose symbols
\* field is present and is not an array
ProtocolError(m) ==
    \/ m.type \notin {"none", "subscribe", "unsubscribe"}
    \/ /\ m.type \in {"subscribe", "unsubscribe"}
       /\ m.symbols.js \notin {"undefined", "array"}

\* C21: a message of an unknown type, or a subscribe or unsubscribe whose
\* symbols field is not an array, is answered with an error to its sender
\* only; the sender stays connected and registered, and no subscription set
\* and no upstream subscription changes.
C21_ProtocolErrorAnswered ==
    [][ProtocolError(clientMessage') =>
          /\ wsSent' = [client |-> clientMessage'.client, types |-> {"error"}]
          /\ upstreamCall' = NoCall
          /\ UNCHANGED <<subscriptions, wsClients, wsConn>>]_vars

\* the account answered a run of executeAutoTrades with no USDT account, or
\* with one whose available balance is 0 or less
AnsweredWithoutFunds(r) ==
    /\ r.answered
    /\ \/ \A k \in 1..Len(r.accountInfo) : r.accountInfo[k].marginCoin # "USDT"
       \/ \E k \in 1..Len(r.accountInfo) :
             /\ r.accountInfo[k].marginCoin = "USDT"
             /\ \A j \in 1..(k - 1) : r.accountInfo[j].marginCoin # "USDT"
             /\ r.accountInfo[k].available <= 0

\* C22: a run of executeAutoTrades that is answered with an available balance
\* of 0 or less, or with no USDT account, places no order and returns without
\* throwing.
C22_NoFundsNoOrder ==
    \A b \in BatchIds :
        AnsweredWithoutFunds(batches[b]) =>
            /\ batches[b].phase = "done"
            /\ batches[b].result = "skipped"
            /\ batches[b].attempted = <<>>
            /\ trades[<<"auto", b>>].phase = "idle"
            /\ orderSent = NoOrder

\* a run has returned after an answer that holds accounts, none of them in USDT
C22_Witness ==
    \E b \in BatchIds :
        /\ AnsweredWithoutFunds(batches[b])
        /\ batches[b].accountInfo # <<>>
        /\ UsdtAccounts(batches[b].accountInfo) = <<>>
        /\ batches[b].phase = "done"

\* calculateOptimizedRiskParameters neither pulled the stop to the support nor
\* capped the take profit at the resistance
NoClamping(c) ==
    /\ (NearestSupport(c.candles) * 998) \div 1000
          <= RiskEntryPrice - IdealStopDistance(RiskEntryPrice, c.atr)
    /\ c.result.takeProfit <= NearestResistance(c.candles)
    /\ c.result.takeProfit # CapNearLevel(NearestResistance(c.candles), 101)

\* C23: for a LONG signal with entry price 100 and ATR 2, and no clamping by
\* support or resistance, the risk computation yields stopLoss 96 and
\* takeProfit 108.
C23_RiskForEntry100Atr2 ==
    (/\ riskCall.phase = "returned"
     /\ riskCall.signalType = "LONG"
     /\ riskCall.entryPrice = RiskEntryPrice
     /\ riskCall.atr = 2000
     /\ riskCall.result # NoRisk
     /\ riskCall.fn = "calculateOptimizedRiskParameters" => NoClamping(riskCall))
        => riskCall.result = [stopLoss |-> 96000, takeProfit |-> 108000]

\* the same for the signals generateAIEnhancedSignal returns
C23_GeneratedSignalRisk ==
    (/\ riskCall.phase = "returned"
     /\ riskCall.fn = "generateAIEnhancedSignal"
     /\ riskCall.signalType = "LONG"
     /\ riskCall.atr = 2000
     /\ riskCall.result # NoRisk)
        => riskCall.result = [stopLoss |-> 96000, takeProfit |-> 108000]

\* C24: calculateOptimizedRiskParameters returns no take profit beyond the
\* nearest opposing level: at most the highest high of the last 20 candles
\* for LONG, at least their lowest low for SHORT.
C24_TakeProfitWithinLevel ==
    (riskCall.phase = "returned" /\ riskCall.fn = "calculateOptimizedRiskParameters")
        => IF riskCall.signalType = "LONG"
           THEN riskCall.result.takeProfit <= NearestResistance(riskCall.candles)
           ELSE riskCall.result.takeProfit >= NearestSupport(riskCall.candles)

\* C38: for an entry price above 0 and a candle history that is not empty,
\* calculateOptimizedRiskParameters returns stopLoss < entry < takeProfit for
\* LONG and takeProfit < entry < stopLoss for SHORT, with the stop at most 3%
\* of the entry price away from it.
C38_StopAndTargetAroundEntry ==
    (riskCall.phase = "returned" /\ riskCall.fn = "calculateOptimizedRiskParameters")
        => LET entry == riskCall.entryPrice
               stopLoss == riskCall.result.stopLoss
               takeProfit == riskCall.result.takeProfit
           IN  /\ riskCall.signalType = "LONG" => stopLoss < entry /\ entry < takeProfit
               /\ riskCall.signalType = "SHORT" => takeProfit < entry /\ entry < stopLoss
               /\ (entry - stopLoss) * 100 <= 3 * entry
               /\ (stopLoss - entry) * 100 <= 3 * entry

\* C38 for an entry price between the lowest low and the highest high of the
\* last 20 candles
C38_AroundEntryWithinRange ==
    (/\ riskCall.phase = "returned" /\ riskCall.fn = "calculateOptimizedRiskParameters"
     /\ NearestSupport(riskCall.candles) <= riskCall.entryPrice
     /\ riskCall.entryPrice <= NearestResistance(riskCall.candles))
        => LET entry == riskCall.entryPrice
               stopLoss == riskCall.result.stopLoss
               takeProfit == riskCall.result.takeProfit
           IN  /\ riskCall.signalType = "LONG" => stopLoss < entry /\ entry < takeProfit
               /\ riskCall.signalType = "SHORT" => takeProfit < entry /\ entry < stopLoss
               /\ (entry - stopLoss) * 100 <= 3 * entry
               /\ (stopLoss - entry) * 100 <= 3 * entry

\* C25: the cache of market data is modified by the handler of feed
\* messages only: every step that changes it is _processMarketData caching
\* and broadcasting a message.
C25_FeedIsSoleCacheWriter ==
    [][cachedMarketData' # cachedMarketData => pushed'.via = "marketDataSocket"]_vars

\* the entries of the cache that the feed wrote
FeedEntries(cache) ==
    {key \in MdsInstIds \X MdsChannels :
        /\ lastArrived[key] # <<>>
        /\ key[1] \in DOMAIN cache
        /\ key[2] \in DOMAIN cache[key[1]]
        /\ cache[key[1]][key[2]].data = FirstItem(lastArrived[key])}

\* C28: when a call of getFallbackMarketData that awaited the exchange
\* completes, every entry the feed cached meanwhile is still in the cache.
C28_FallbackKeepsFeedEntries ==
    [][fallbackRequests' < fallbackRequests =>
          FeedEntries(cachedMarketData) \subseteq FeedEntries(cachedMarketData')]_vars

\* the runs that were told of one available balance
ToldOf(balance) ==
    {b \in BatchIds : batches[b].answered /\ batches[b].balance = balance}

\* C29: when runs of executeAutoTrades overlap, at most 5 automatic trades are
\* being placed at one time, and the orders the runs place out of one
\* available balance add up to at most 90% of it.
C29_OverlappingRunsShareBalance ==
    /\ Cardinality({tid \in AutoTradeIds : trades[tid].phase # "idle"})
           <= maxConcurrentTrades
    /\ AcceptedBy(ToldOf(Funds), MaxBatches) <= balanceShare * Funds

\* C29, the first half: at most 5 automatic trades are in progress
C29_AtMostFiveInProgress ==
    Cardinality({tid \in AutoTradeIds : trades[tid].phase # "idle"}) <= maxConcurrentTrades

\* C29, one run alone: its orders add up to at most 90% of the balance it read
C29_OneRunWithinShare ==
    \A b \in BatchIds :
        batches[b].answered => AcceptedSize(b) <= balanceShare * batches[b].balance

\* C6: an order request goes to the exchange only for a symbol of the current
\* tradingPairs.
C6_OrdersOnlyForActiveSymbols ==
    orderSent.kind = "order" => orderSent.symbol \in Range(tradingPairs)

\* C7: when an attempt of a run throws, every other selected signal is still
\* attempted, with the same size, and the run returns normally.
C7_FailuresAreIsolated ==
    \A b \in BatchIds :
        LET r == batches[b]
            n == Len(r.signals)
            m == IF n <= 5 THEN n ELSE 5
        IN  (/\ r.phase = "done"
             /\ \E k \in 1..Len(r.attempted) : r.attempted[k].outcome = "threw")
            => /\ r.result = "returned"
               /\ Len(r.attempted) = m
               /\ \A k \in 1..m : /\ r.attempted[k].size = r.attempted[1].size
                                   /\ r.attempted[k].outcome \in {"threw", "returned"}
               /\ \A j, k \in 1..m :
                     j # k => \/ r.attempted[j].symbol # r.attempted[k].symbol
                              \/ r.attempted[j].side # r.attempted[k].side

\* C7, its case: the first attempt of a run of five threw and a later one
\* placed its order.
C7_Witness ==
    \E b \in BatchIds :
        /\ batches[b].phase = "done"
        /\ Len(batches[b].attempted) = 5
        /\ batches[b].attempted[1].outcome = "threw"
        /\ \E k \in 2..5 : batches[b].attempted[k].outcome = "returned"

\* C11: the cache entry of an (instrument, channel) key holds the first item
\* of the data array of the message that arrived last for that key, whatever
\* the items' own timestamps say and whatever was written to other keys; a
\* key no message arrived for has no entry.
C11_CacheHoldsLastArrived ==
    \A instId \in MdsInstIds, channel \in MdsChannels :
        LET data == lastArrived[<<instId, channel>>]
            cached == instId \in DOMAIN cachedMarketData
                      /\ channel \in DOMAIN cachedMarketData[instId]
        IN  IF data = <<>>
            THEN ~cached
            ELSE cached /\ cachedMarketData[instId][channel].data = data[1]

\* three keys hold different messages: the ticker of BTC an item stamped
\* earlier than the one in its candle entry, and the ticker of ETH, written
\* last, a push of two items
C11_Witness ==
    /\ lastArrived[<<InstId(<<"BTC">>), "ticker">>] = <<FeedItem(1)>>
    /\ lastArrived[<<InstId(<<"BTC">>), "candle15m">>] = <<FeedItem(2)>>
    /\ lastArrived[<<InstId(<<"ETH">>), "ticker">>] = <<FeedItem(1), FeedItem(2)>>
    /\ pushed # NoPush /\ pushed.symbol = InstId(<<"ETH">>)

\* the recent signals of the new signal's symbol, direction and timeframe
\* that are at most one window older than it
SameKeyWithinWindow(c) ==
    {i \in 1..Len(c.recentSignals) :
        LET s == c.recentSignals[i]
        IN  /\ s.symbol = c.newSignal.symbol
            /\ s.type = c.newSignal.type
            /\ s.timeframe = c.timeframe
            /\ c.newSignal.timestamp - s.timestamp <= timeWindows(c.timeframe) * 60}

\* C12: isUniqueSignal returns false exactly when the recent signals hold one
\* of the same symbol, direction and timeframe within the window; a signal of
\* another symbol or direction never causes a rejection.
C12_RejectedIffSameKeyInWindow ==
    uniqueCall.phase = "returned" =>
        (uniqueCall.result = FALSE <=> SameKeyWithinWindow(uniqueCall) # {})

-----------------------------------------------------------------------------
\* C39: when the main order was placed and placing its stop orders then
\* fails, placeOrder still returns and executeTrade reports the trade as
\* executed, with the stopLoss and takeProfit it had handed to placeOrder.
C39_FailedStopOrdersStillExecuted ==
    [][\A tid \in AutoTradeIds :
          StopsResolve(tid, FALSE) =>
              LET r == batches[tid[2]]
                  reported == batches'[tid[2]].attempted[Len(r.attempted)]
              IN  /\ reported.outcome = "returned"
                  /\ reported.status = "executed"
                  /\ reported.stopOrders = "failed"
                  /\ reported.stopLoss = trades[tid].stopLoss
                  /\ reported.takeProfit = trades[tid].takeProfit
                  /\ reported.stopLoss > 0 /\ reported.takeProfit > 0]_vars

\* a buy at the price 1 was reported executed with stopLoss 0.98 and
\* takeProfit 1.05 after its stop orders had failed
C39_Witness ==
    \E b \in BatchIds :
        \E k \in 1..Len(batches[b].attempted) :
            LET a == batches[b].attempted[k]
            IN  /\ a.stopOrders = "failed"
                /\ a.outcome = "returned"
                /\ a.status = "executed"
                /\ a.side = "buy"
                /\ a.stopLoss = 980
                /\ a.takeProfit = 1050

-----------------------------------------------------------------------------
\* a pong, the answer to a subscription or an error event of the exchange
ControlFrame(frame) == frame.kind \in {"pong", "subscribe", "error"}

\* a data message for an instrument that is not in this.activeSymbols
UntrackedFrame(frame) ==
    /\ frame.kind = "data"
    /\ frame.data # <<>>
    /\ SplitFirst(frame.instId) \notin activeSymbols

\* C40: a feed message whose instrument is not in activeSymbols, and a control
\* message of the upstream socket (pong, subscription answer, error event),
\* leave cachedMarketData and lastUpdated as they were, emit no event and
\* broadcast to no client.
C40_IgnoredFramesChangeNothing ==
    [][\A frame \in UpstreamFrames \cup FeedFrames :
          (UpstreamMessage(frame) /\ (ControlFrame(frame) \/ UntrackedFrame(frame)))
              => /\ UNCHANGED <<cachedMarketData, lastUpdated, emitted>>
                 /\ pushed' = NoPush]_vars

\* a message for an untracked instrument was handled last, after the clock
\* had moved on from the last write to a cache that holds an entry
C40_Witness ==
    /\ UntrackedFrame(handledFrame)
    /\ DOMAIN cachedMarketData # {}
    /\ 0 < lastUpdated /\ lastUpdated < now
    /\ pushed = NoPush

=============================================================================
